---------------------------- MODULE Spec2Model ----------------------------
(***************************************************************************)
(* File-type detection, support enforcement, content fetching and staging  *)
(* of openai_vstore_toolkit, as a state machine.                           *)
(*                                                                         *)
(* Representation.  A Python str (file names, extensions, MIME types,      *)
(* reasons) is a TLA+ string; a Python bytes value and the text decoded    *)
(* from it are sequences of integers (byte values, code points).  The      *)
(* Python value None of an Optional[str] is the string None below.         *)
(***************************************************************************)
EXTENDS Integers, Sequences, FiniteSets, TLC

None == "<None>"

\* Python truthiness of an Optional[str]: None and "" are falsy.
Truthy(s) == s # None /\ s # ""

(***************************************************************************)
(* str helpers                                                             *)
(***************************************************************************)
Ch(s, i) == SubSeq(s, i, i)

UpperLetters == "ABCDEFGHIJKLMNOPQRSTUVWXYZ"
LowerLetters == "abcdefghijklmnopqrstuvwxyz"

\* str.lower() on one character
UpperSet == {Ch(UpperLetters, i) : i \in 1..Len(UpperLetters)}
LowerOf ==
    [c \in UpperSet |->
        Ch(LowerLetters, CHOOSE i \in 1..Len(UpperLetters) : Ch(UpperLetters, i) = c)]
LowerCh(c) == IF c \in UpperSet THEN LowerOf[c] ELSE c

\* str.lower()
RECURSIVE Lower(_)
Lower(s) == IF Len(s) = 0 THEN "" ELSE LowerCh(Head(s)) \o Lower(Tail(s))

\* str.startswith(prefix)
StartsWith(s, prefix) ==
    Len(s) >= Len(prefix) /\ SubSeq(s, 1, Len(prefix)) = prefix

\* positions of character c in s
Positions(s, c) == {i \in 1..Len(s) : Ch(s, i) = c}

Max(S) == CHOOSE x \in S : \A y \in S : y <= x

\* os.path.basename on a POSIX path: what follows the last "/"
Basename(p) ==
    IF Positions(p, "/") = {} THEN p
    ELSE SubSeq(p, Max(Positions(p, "/")) + 1, Len(p))

\* os.path.splitext: the extension starts at the last dot of the base name,
\* unless that dot is one of the name's leading dots.
SplitDot(p) ==
    LET sep  == IF Positions(p, "/") = {} THEN 0 ELSE Max(Positions(p, "/"))
        dots == {i \in Positions(p, ".") : i > sep}
        dot  == IF dots = {} THEN 0 ELSE Max(dots)
    IN  IF dot > sep + 1 /\ \E j \in (sep + 1)..(dot - 1) : Ch(p, j) # "."
        THEN dot ELSE 0

SplitextRoot(p) == IF SplitDot(p) = 0 THEN p ELSE SubSeq(p, 1, SplitDot(p) - 1)
SplitextExt(p)  == IF SplitDot(p) = 0 THEN "" ELSE SubSeq(p, SplitDot(p), Len(p))

(***************************************************************************)
(* bytes helpers                                                           *)
(***************************************************************************)
\* The printable ASCII characters of code points 32..95 and 97..126, in order
\* (code point 96, the backquote, is written as a number where it is needed).
AsciiLo == " !\"#$%&'()*+,-./0123456789:;<=>?@ABCDEFGHIJKLMNOPQRSTUVWXYZ[\\]^_"
AsciiHi == "abcdefghijklmnopqrstuvwxyz{|}~"

OrdLo ==
    [c \in {Ch(AsciiLo, i) : i \in 1..Len(AsciiLo)} |->
        31 + (CHOOSE i \in 1..Len(AsciiLo) : Ch(AsciiLo, i) = c)]
OrdHi ==
    [c \in {Ch(AsciiHi, i) : i \in 1..Len(AsciiHi)} |->
        96 + (CHOOSE i \in 1..Len(AsciiHi) : Ch(AsciiHi, i) = c)]
Ord(c) ==
    IF c = "\n" THEN 10
    ELSE IF c = "\t" THEN 9
    ELSE IF c = "\r" THEN 13
    ELSE IF c \in DOMAIN OrdLo THEN OrdLo[c]
    ELSE OrdHi[c]

\* The bytes (or code points) of an ASCII literal.
RECURSIVE B(_)
B(s) == IF Len(s) = 0 THEN <<>> ELSE <<Ord(Head(s))>> \o B(Tail(s))

\* bytes.startswith / str.startswith on sequences
HasPrefix(buf, p) == Len(buf) >= Len(p) /\ SubSeq(buf, 1, Len(p)) = p
HasSuffix(buf, p) ==
    Len(buf) >= Len(p) /\ SubSeq(buf, Len(buf) - Len(p) + 1, Len(buf)) = p

\* buf[:n]
Take(buf, n) == SubSeq(buf, 1, IF Len(buf) < n THEN Len(buf) ELSE n)

\* "k in t" for sequences: k occurs as a contiguous subsequence of t
Occurs(k, t) ==
    \E i \in 1..(Len(t) - Len(k) + 1) : SubSeq(t, i, i + Len(k) - 1) = k

\* number of occurrences of the single element x (str.count of one character)
Count(t, x) == Cardinality({i \in 1..Len(t) : t[i] = x})

(***************************************************************************)
(* Format registry (_file_type.py)                                         *)
(***************************************************************************)
SUPPORTED_EXT ==
    { ".pdf", ".doc", ".docx", ".pptx",
      ".txt", ".md", ".html", ".json", ".tex",
      ".py", ".js", ".ts", ".java", ".c", ".cpp", ".cs", ".rb", ".php",
      ".go", ".sh" }

SUPPORTED_MIME ==
    { "application/msword",
      "application/vnd.openxmlformats-officedocument.wordprocessingml.document",
      "application/vnd.openxmlformats-officedocument.presentationml.presentation",
      "text/plain", "text/markdown", "text/html", "application/json",
      "text/x-python", "text/x-script.python", "text/javascript",
      "application/typescript", "text/x-java", "text/x-c", "text/x-c++",
      "text/x-csharp", "text/x-ruby", "text/x-php", "text/x-golang",
      "application/x-sh", "text/x-tex",
      "application/pdf" }

\* _MIME_MAP, in the order of the dict's items
MIME_MAP_ITEMS ==
    << <<".pdf",  "application/pdf">>,
       <<".doc",  "application/msword">>,
       <<".docx", "application/vnd.openxmlformats-officedocument.wordprocessingml.document">>,
       <<".ppt",  "application/vnd.ms-powerpoint">>,
       <<".pptx", "application/vnd.openxmlformats-officedocument.presentationml.presentation">>,
       <<".xls",  "application/vnd.ms-excel">>,
       <<".xlsx", "application/vnd.openxmlformats-officedocument.spreadsheetml.sheet">>,
       <<".csv",  "text/csv">>,
       <<".tsv",  "text/tab-separated-values">>,
       <<".txt",  "text/plain">>,
       <<".md",   "text/markdown">>,
       <<".html", "text/html">>,
       <<".json", "application/json">>,
       <<".tex",  "text/x-tex">>,
       <<".py",   "text/x-python">>,
       <<".js",   "text/javascript">>,
       <<".ts",   "application/typescript">>,
       <<".java", "text/x-java">>,
       <<".c",    "text/x-c">>,
       <<".cpp",  "text/x-c++">>,
       <<".cs",   "text/x-csharp">>,
       <<".rb",   "text/x-ruby">>,
       <<".php",  "text/x-php">>,
       <<".go",   "text/x-golang">>,
       <<".sh",   "application/x-sh">>,
       <<".png",  "image/png">>,
       <<".jpg",  "image/jpeg">>,
       <<".jpeg", "image/jpeg">>,
       <<".zip",  "application/zip">>,
       <<".bin",  "application/octet-stream">>,
       <<".ole",  "application/vnd.ms-office">> >>

MimeMapKeys == {MIME_MAP_ITEMS[i][1] : i \in 1..Len(MIME_MAP_ITEMS)}
MimeMapValues == {MIME_MAP_ITEMS[i][2] : i \in 1..Len(MIME_MAP_ITEMS)}

\* MIME_MAP[ext] (ext is a key) and MIME_MAP.get(ext) (None when it is not)
MimeMapDict ==
    [ext \in MimeMapKeys |->
        MIME_MAP_ITEMS[CHOOSE i \in 1..Len(MIME_MAP_ITEMS) : MIME_MAP_ITEMS[i][1] = ext][2]]
MIME_MAP(ext) == IF ext \in MimeMapKeys THEN MimeMapDict[ext] ELSE None

\* _MIME_TO_EXT = {v: k for k, v in _MIME_MAP.items()}: the last item of a
\* MIME wins; .get(mime) is None when the MIME is no value of the map.
MimeToExtDict ==
    [mime \in MimeMapValues |->
        MIME_MAP_ITEMS[Max({i \in 1..Len(MIME_MAP_ITEMS) : MIME_MAP_ITEMS[i][2] = mime})][1]]
\* a reverse map in which the first item of a MIME wins
MIME_TO_EXT_FirstWins(mime) ==
    IF mime \in MimeMapValues
    THEN MIME_MAP_ITEMS[CHOOSE i \in 1..Len(MIME_MAP_ITEMS) :
                           /\ MIME_MAP_ITEMS[i][2] = mime
                           /\ \A j \in 1..(i - 1) : MIME_MAP_ITEMS[j][2] # mime][1]
    ELSE None

MIME_TO_EXT(mime) == IF mime \in MimeMapValues THEN MimeToExtDict[mime] ELSE None

\* _ALIAS_MIME_TO_CANONICAL: alias -> <<ext, canonical mime>>
ALIAS_ITEMS ==
    << <<"application/x-pdf",      ".pdf", "application/pdf">>,
       <<"application/acrobat",    ".pdf", "application/pdf">>,
       <<"application/vnd.pdf",    ".pdf", "application/pdf">>,
       <<"application/nappdf",     ".pdf", "application/pdf">>,
       <<"application/javascript", ".js",  "text/javascript">>,
       <<"text/ecmascript",        ".js",  "text/javascript">>,
       <<"application/ecmascript", ".js",  "text/javascript">>,
       <<"text/x-script.python",   ".py",  "text/x-python">>,
       <<"text/x-typescript",      ".ts",  "application/typescript">>,
       <<"text/x-sh",              ".sh",  "application/x-sh">> >>

AliasKeys == {ALIAS_ITEMS[i][1] : i \in 1..Len(ALIAS_ITEMS)}

\* ALIAS_MIME_TO_CANONICAL.get(mime): <<ext, canonical mime>>, or <<>> for None
AliasDict ==
    [mime \in AliasKeys |->
        LET e == ALIAS_ITEMS[CHOOSE i \in 1..Len(ALIAS_ITEMS) : ALIAS_ITEMS[i][1] = mime]
        IN  <<e[2], e[3]>>]
ALIAS_MIME_TO_CANONICAL(mime) == IF mime \in AliasKeys THEN AliasDict[mime] ELSE <<>>

ZIP_MIME_ALIASES == {"application/zip", "application/x-zip-compressed", "multipart/x-zip"}
PDF_MIME_ALIASES ==
    {"application/pdf", "application/x-pdf", "application/acrobat",
     "application/vnd.pdf", "application/nappdf"}
OLE_MIME_ALIASES ==
    {"application/CDFV2", "application/x-ole-storage", "application/x-cfb",
     "application/vnd.ms-office"}
JPEG_MIME_ALIASES == {"image/jpeg", "image/jpg", "image/pjpeg"}
MARKDOWN_MIME_ALIASES == {"text/markdown", "text/x-markdown"}
CSV_MIME_ALIASES == {"text/csv", "text/x-comma-separated-values", "application/csv"}
TSV_MIME_ALIASES == {"text/tab-separated-values"}
TEXT_PREFIX == "text/"

is_supported_ext(ext) ==
    IF ~Truthy(ext) THEN FALSE
    ELSE Lower(IF StartsWith(ext, ".") THEN ext ELSE "." \o ext) \in SUPPORTED_EXT

is_supported_mime(mime) ==
    IF ~Truthy(mime) THEN FALSE ELSE Lower(mime) \in SUPPORTED_MIME


(***************************************************************************)
(* Text primitives of Python on byte strings and on decoded text           *)
(***************************************************************************)
Min(S) == CHOOSE x \in S : \A y \in S : x <= y

\* bytes.strip()/bytes.splitlines(): ASCII whitespace and ASCII line breaks
BytesSpace == {9, 10, 11, 12, 13, 32}
BytesBreaks == {10, 13}
\* str.strip()/str.isspace()/str.splitlines() on code points
StrSpace ==
    {9, 10, 11, 12, 13, 28, 29, 30, 31, 32, 133, 160, 5760, 8232, 8233, 8239,
     8287, 12288} \cup (8192..8202)
StrBreaks == {10, 11, 12, 13, 28, 29, 30, 133, 8232, 8233}

\* str.isprintable() of one code point.  Exact for ASCII and Latin-1; above
\* them every code point that is not a space counts as printable.
IsPrintable(cp) ==
    IF cp < 128 THEN cp >= 32 /\ cp <= 126
    ELSE cp >= 161 /\ cp # 173 /\ cp \notin StrSpace

IsSpace(cp) == cp \in StrSpace

\* splitlines(): "\r\n" is one break; no empty last line after a final break
RECURSIVE Splitlines(_, _)
Splitlines(t, brk) ==
    IF Len(t) = 0 THEN <<>>
    ELSE LET idx == {i \in 1..Len(t) : t[i] \in brk}
         IN  IF idx = {} THEN <<t>>
             ELSE LET i == Min(idx)
                      j == IF t[i] = 13 /\ i < Len(t) /\ t[i + 1] = 10
                           THEN i + 1 ELSE i
                  IN  <<SubSeq(t, 1, i - 1)>>
                        \o Splitlines(SubSeq(t, j + 1, Len(t)), brk)

\* strip(), rstrip() with the whitespace set ws
Strip(t, ws) ==
    LET keep == {i \in 1..Len(t) : t[i] \notin ws}
    IN  IF keep = {} THEN <<>> ELSE SubSeq(t, Min(keep), Max(keep))

RStrip(t, ws) ==
    LET keep == {i \in 1..Len(t) : t[i] \notin ws}
    IN  IF keep = {} THEN <<>> ELSE SubSeq(t, 1, Max(keep))

\* str.lower() on ASCII code points
LowerText(t) == [i \in 1..Len(t) |-> IF t[i] >= 65 /\ t[i] <= 90 THEN t[i] + 32 ELSE t[i]]

\* len(ln.split(sep)) for a one-character separator
SplitCount(ln, sep) == Count(ln, sep) + 1

\* UTF-8: the length of the well-formed sequence that starts at buf[i]
\* (0 when there is none) and its code point.
IsCont(buf, i) == i <= Len(buf) /\ buf[i] >= 128 /\ buf[i] <= 191

Utf8Len(buf, i) ==
    LET b == buf[i]
        second(lo, hi) == i + 1 <= Len(buf) /\ buf[i + 1] >= lo /\ buf[i + 1] <= hi
    IN  IF b < 128 THEN 1
        ELSE IF b >= 194 /\ b <= 223 THEN (IF IsCont(buf, i + 1) THEN 2 ELSE 0)
        ELSE IF b >= 224 /\ b <= 239 THEN
            (IF /\ second(IF b = 224 THEN 160 ELSE 128, IF b = 237 THEN 159 ELSE 191)
                /\ IsCont(buf, i + 2)
             THEN 3 ELSE 0)
        ELSE IF b >= 240 /\ b <= 244 THEN
            (IF /\ second(IF b = 240 THEN 144 ELSE 128, IF b = 244 THEN 143 ELSE 191)
                /\ IsCont(buf, i + 2) /\ IsCont(buf, i + 3)
             THEN 4 ELSE 0)
        ELSE 0

Utf8Cp(buf, i, n) ==
    IF n = 1 THEN buf[i]
    ELSE IF n = 2 THEN (buf[i] - 192) * 64 + (buf[i + 1] - 128)
    ELSE IF n = 3 THEN (buf[i] - 224) * 4096 + (buf[i + 1] - 128) * 64 + (buf[i + 2] - 128)
    ELSE (buf[i] - 240) * 262144 + (buf[i + 1] - 128) * 4096
           + (buf[i + 2] - 128) * 64 + (buf[i + 3] - 128)

RECURSIVE DecodeFrom(_, _)
DecodeFrom(buf, i) ==
    IF i > Len(buf) THEN <<>>
    ELSE LET n == Utf8Len(buf, i)
         IN  IF n = 0 THEN DecodeFrom(buf, i + 1)
             ELSE <<Utf8Cp(buf, i, n)>> \o DecodeFrom(buf, i + n)

\* buf.decode("utf-8", errors="ignore"): ill-formed bytes are dropped
DecodeUtf8(buf) ==
    IF \A i \in 1..Len(buf) : buf[i] < 128 THEN buf ELSE DecodeFrom(buf, 1)

\* buf.decode("utf-8-sig", errors="ignore"): a leading BOM is dropped
DecodeUtf8Sig(buf) ==
    IF HasPrefix(buf, <<239, 187, 191>>)
    THEN DecodeUtf8(SubSeq(buf, 4, Len(buf))) ELSE DecodeUtf8(buf)

\* buf.decode("utf-16", errors="ignore") of a buffer that starts with a BOM:
\* the BOM gives the byte order and is dropped; a trailing odd byte and
\* unpaired surrogates are dropped, a surrogate pair is one code point.
RECURSIVE Utf16From(_, _, _)
Utf16From(buf, i, le) ==
    IF i + 1 > Len(buf) THEN <<>>
    ELSE LET unit(k) == IF le THEN buf[k] + 256 * buf[k + 1]
                        ELSE 256 * buf[k] + buf[k + 1]
             u == unit(i)
         IN  IF u < 55296 \/ u > 57343 THEN <<u>> \o Utf16From(buf, i + 2, le)
             ELSE IF u <= 56319 /\ i + 3 <= Len(buf)
                     /\ unit(i + 2) >= 56320 /\ unit(i + 2) <= 57343
             THEN <<65536 + (u - 55296) * 1024 + (unit(i + 2) - 56320)>>
                    \o Utf16From(buf, i + 4, le)
             ELSE Utf16From(buf, i + 2, le)

DecodeUtf16(buf) == Utf16From(buf, 3, HasPrefix(buf, <<255, 254>>))


(***************************************************************************)
(* json.loads(text) succeeds: the grammar json.decoder accepts.  Every     *)
(* scanner returns the index after what it read, or 0 when it fails.       *)
(***************************************************************************)
JsonWs == {32, 9, 10, 13}

SkipWs(t, i) ==
    LET stop == {k \in i..Len(t) : t[k] \notin JsonWs}
    IN  IF stop = {} THEN (IF i > Len(t) THEN i ELSE Len(t) + 1) ELSE Min(stop)

IsDigit(t, i) == i <= Len(t) /\ t[i] >= 48 /\ t[i] <= 57
IsHex(t, i) ==
    i <= Len(t) /\ \/ (t[i] >= 48 /\ t[i] <= 57)
                   \/ (t[i] >= 65 /\ t[i] <= 70)
                   \/ (t[i] >= 97 /\ t[i] <= 102)

\* index after the run of digits that starts at i (i itself when there is none)
DigitsEnd(t, i) ==
    LET stop == {k \in i..Len(t) : ~IsDigit(t, k)}
    IN  IF stop = {} THEN (IF i > Len(t) THEN i ELSE Len(t) + 1) ELSE Min(stop)

HasAt(t, i, lit) == i + Len(lit) - 1 <= Len(t) /\ SubSeq(t, i, i + Len(lit) - 1) = lit

\* -?(0|[1-9]\d*)(\.\d+)?([eE][-+]?\d+)?
JsonNumber(t, i) ==
    LET d == IF i <= Len(t) /\ t[i] = 45 THEN i + 1 ELSE i
    IN  IF ~IsDigit(t, d) THEN 0
        ELSE LET intEnd  == IF t[d] = 48 THEN d + 1 ELSE DigitsEnd(t, d)
                 fracEnd == IF intEnd <= Len(t) /\ t[intEnd] = 46 /\ IsDigit(t, intEnd + 1)
                            THEN DigitsEnd(t, intEnd + 1) ELSE intEnd
                 sgn     == IF fracEnd + 1 <= Len(t) /\ t[fracEnd + 1] \in {43, 45}
                            THEN fracEnd + 2 ELSE fracEnd + 1
             IN  IF fracEnd <= Len(t) /\ t[fracEnd] \in {69, 101} /\ IsDigit(t, sgn)
                 THEN DigitsEnd(t, sgn) ELSE fracEnd

\* a string whose opening quote is at i - 1; strict: no control characters
RECURSIVE JsonStringBody(_, _)
JsonStringBody(t, i) ==
    IF i > Len(t) THEN 0
    ELSE IF t[i] = 34 THEN i + 1
    ELSE IF t[i] < 32 THEN 0
    ELSE IF t[i] # 92 THEN JsonStringBody(t, i + 1)
    ELSE IF i + 1 > Len(t) THEN 0
    ELSE IF t[i + 1] \in {34, 92, 47, 98, 102, 110, 114, 116} THEN JsonStringBody(t, i + 2)
    ELSE IF t[i + 1] = 117 /\ \A k \in 2..5 : IsHex(t, i + k) THEN JsonStringBody(t, i + 6)
    ELSE 0

RECURSIVE JsonValue(_, _), JsonArrayItems(_, _), JsonObjectMembers(_, _)
\* scan_once at i
JsonValue(t, i) ==
    IF i > Len(t) THEN 0
    ELSE IF t[i] = 34 THEN JsonStringBody(t, i + 1)
    ELSE IF t[i] = 123 THEN
        (LET j == SkipWs(t, i + 1)
         IN  IF j <= Len(t) /\ t[j] = 125 THEN j + 1
             ELSE IF j <= Len(t) /\ t[j] = 34 THEN JsonObjectMembers(t, j) ELSE 0)
    ELSE IF t[i] = 91 THEN
        (LET j == SkipWs(t, i + 1)
         IN  IF j <= Len(t) /\ t[j] = 93 THEN j + 1 ELSE JsonArrayItems(t, j))
    ELSE IF HasAt(t, i, B("null")) THEN i + 4
    ELSE IF HasAt(t, i, B("true")) THEN i + 4
    ELSE IF HasAt(t, i, B("false")) THEN i + 5
    ELSE IF JsonNumber(t, i) # 0 THEN JsonNumber(t, i)
    ELSE IF HasAt(t, i, B("NaN")) THEN i + 3
    ELSE IF HasAt(t, i, B("Infinity")) THEN i + 8
    ELSE IF HasAt(t, i, B("-Infinity")) THEN i + 9
    ELSE 0

\* the items of an array, the first starting at i
JsonArrayItems(t, i) ==
    LET v == JsonValue(t, i)
        j == SkipWs(t, v)
    IN  IF v = 0 \/ j > Len(t) THEN 0
        ELSE IF t[j] = 93 THEN j + 1
        ELSE IF t[j] = 44 THEN JsonArrayItems(t, SkipWs(t, j + 1))
        ELSE 0

\* the members of an object, the first key's opening quote at i
JsonObjectMembers(t, i) ==
    LET k == JsonStringBody(t, i + 1)
        c == SkipWs(t, k)
        v == IF k = 0 \/ c > Len(t) \/ t[c] # 58 THEN 0
             ELSE JsonValue(t, SkipWs(t, c + 1))
        j == SkipWs(t, v)
    IN  IF v = 0 \/ j > Len(t) THEN 0
        ELSE IF t[j] = 125 THEN j + 1
        ELSE IF t[j] = 44 THEN
            (LET n == SkipWs(t, j + 1)
             IN  IF n <= Len(t) /\ t[n] = 34 THEN JsonObjectMembers(t, n) ELSE 0)
        ELSE 0

\* json.loads(text) returns (does not raise)
JsonLoads(t) ==
    LET v == JsonValue(t, SkipWs(t, 1))
    IN  v # 0 /\ SkipWs(t, v) = Len(t) + 1


(***************************************************************************)
(* zipfile.ZipFile(BytesIO(buf)): the names of the archive's central       *)
(* directory, or a failure (BadZipFile).  Archives without ZIP64 records.  *)
(***************************************************************************)
LE16(buf, i) == buf[i] + 256 * buf[i + 1]
\* A 32-bit field; a value of 2^30 or more (beyond every buffer length here)
\* is read as 2^30.
LE32(buf, i) ==
    IF buf[i + 3] >= 64 THEN 1073741824
    ELSE buf[i] + 256 * buf[i + 1] + 65536 * buf[i + 2] + 16777216 * buf[i + 3]

EOCD_SIG == <<80, 75, 5, 6>>      \* "PK\005\006", the end-of-central-directory record
CDIR_SIG == <<80, 75, 1, 2>>      \* "PK\001\002", a central-directory entry
EOCD_SIZE == 22
CDIR_SIZE == 46

\* _EndRecData: the index of the end record, 0 when there is none
EndRecSearch(found, n) ==
    IF found = {} \/ Max(found) + EOCD_SIZE - 1 > n THEN 0 ELSE Max(found)

EndRecIndex(buf) ==
    IF Len(buf) < EOCD_SIZE THEN 0
    ELSE IF /\ HasAt(buf, Len(buf) - EOCD_SIZE + 1, EOCD_SIG)
            /\ buf[Len(buf) - 1] = 0 /\ buf[Len(buf)] = 0
    THEN Len(buf) - EOCD_SIZE + 1
    ELSE EndRecSearch({i \in 1..Len(buf) : HasAt(buf, i, EOCD_SIG)}, Len(buf))

\* the file name of a central-directory entry: the bytes before the first NUL
EntryName(raw) ==
    IF \A i \in 1..Len(raw) : raw[i] # 0 THEN raw
    ELSE SubSeq(raw, 1, Min({i \in 1..Len(raw) : raw[i] = 0}) - 1)

\* name put before the names that follow; a failure among them is a failure
EntryBefore(name, rest) == IF rest[1] THEN <<TRUE, name>> \o Tail(rest) ELSE <<FALSE>>

\* _RealGetContents: the entries of the central directory dir (the size_cd
\* bytes at start_dir, fewer when the file ends before), read from offset
\* total; <<FALSE>> stands for BadZipFile.
RECURSIVE CentralDirNames(_, _, _)
CentralDirNames(dir, total, size_cd) ==
    IF total >= size_cd THEN <<TRUE>>
    ELSE IF total + CDIR_SIZE > Len(dir) \/ ~HasAt(dir, total + 1, CDIR_SIG) THEN <<FALSE>>
    ELSE EntryBefore(
             EntryName(Take(SubSeq(dir, total + CDIR_SIZE + 1, Len(dir)), LE16(dir, total + 29))),
             \* total + sizeCentralDir + name length + extra length + comment length
             CentralDirNames(dir,
                             total + CDIR_SIZE + LE16(dir, total + 29) + LE16(dir, total + 31)
                                 + LE16(dir, total + 33),
                             size_cd))

\* the central directory of size_cd bytes that ends where the end record at
\* index e starts: start_dir = offset_cd + concat, with
\* concat = (e - 1) - size_cd - offset_cd
ZipFileAt(buf, e, size_cd) ==
    IF (e - 1) - size_cd < 0 THEN <<FALSE>>
    ELSE CentralDirNames(Take(SubSeq(buf, (e - 1) - size_cd + 1, Len(buf)), size_cd),
                         0, size_cd)

ZipFileEnd(buf, e) == IF e = 0 THEN <<FALSE>> ELSE ZipFileAt(buf, e, LE32(buf, e + 12))

\* <<TRUE, name1, ..., namek>> for an archive, <<FALSE>> for BadZipFile
ZipFile(buf) == ZipFileEnd(buf, EndRecIndex(buf))

\* of an opened archive zf: it opened; its names
ZipOk(zf) == zf[1]
ZipNames(zf) == {zf[i] : i \in 2..Len(zf)}


(***************************************************************************)
(* _detector.py: signatures, DetectedType, helpers                         *)
(***************************************************************************)
PDF_SIG        == B("%PDF-")
ZIP_SIG        == <<80, 75, 3, 4>>                        \* b"PK\x03\x04"
ZIP_EMPTY_SIG  == <<80, 75, 5, 6>>                        \* b"PK\x05\x06"
PNG_SIG        == <<137, 80, 78, 71, 13, 10, 26, 10>>     \* b"\x89PNG\r\n\x1a\n"
JPG_SIG_PREFIX == <<255, 216, 255>>                       \* b"\xff\xd8\xff"
OLE_CFB_SIG    == <<208, 207, 17, 224, 161, 177, 26, 225>>

\* DetectedType(ext, mime, reason, oxml_inner=None)
DetectedType(ext, mime, reason, oxml_inner) ==
    [ext |-> ext, mime |-> mime, reason |-> reason, oxml_inner |-> oxml_inner]

\* the value None of an Optional[DetectedType]
NoDT == DetectedType(None, None, None, None)

\* the (ext, sentinel) pairs of _sniff_ooxml_from_zip, in the order of its loop
OOXML_SENTINELS ==
    << <<".xlsx", "xl/workbook.xml">>,
       <<".docx", "word/document.xml">>,
       <<".pptx", "ppt/presentation.xml">> >>

\* sentinel.split("/")[0] + "/"
SentinelDir(sentinel) == SubSeq(sentinel, 1, Min(Positions(sentinel, "/")) - 1) \o "/"

\* _sniff_ooxml_from_zip with the sentinels tried in the opposite order
SniffHit_LastSentinel(hit) ==
    IF hit = {} THEN <<>>
    ELSE <<OOXML_SENTINELS[Max(hit)][1], SentinelDir(OOXML_SENTINELS[Max(hit)][2])>>

\* <<ext, sentinel dir>> of the first sentinel that is an entry of the
\* archive; <<>> (None) when there is none or the archive cannot be opened.
SniffHit(hit) ==
    IF hit = {} THEN <<>>
    ELSE <<OOXML_SENTINELS[Min(hit)][1], SentinelDir(OOXML_SENTINELS[Min(hit)][2])>>

SniffArchive(zf) ==
    IF ~ZipOk(zf) THEN <<>>
    ELSE SniffHit({i \in 1..Len(OOXML_SENTINELS) : B(OOXML_SENTINELS[i][2]) \in ZipNames(zf)})

_sniff_ooxml_from_zip(buf) == SniffArchive(ZipFile(buf))

\* mimetypes.guess_extension(mime) of the standard library, for the MIME
\* types libmagic reports here that the registry does not know; None otherwise.
MIMETYPES_ITEMS ==
    << <<"image/gif", ".gif">>, <<"application/x-tex", ".tex">>,
       <<"text/xml", ".xml">>, <<"application/gzip", ".gz">> >>

mimetypes_guess_extension(mime) ==
    LET hit == {i \in 1..Len(MIMETYPES_ITEMS) : MIMETYPES_ITEMS[i][1] = mime}
    IN  IF hit = {} THEN None ELSE MIMETYPES_ITEMS[Min(hit)][2]

_guess_ext_from_mime(mime) ==
    IF MIME_TO_EXT(mime) # None THEN MIME_TO_EXT(mime)
    ELSE IF ALIAS_MIME_TO_CANONICAL(mime) # <<>> THEN ALIAS_MIME_TO_CANONICAL(mime)[1]
    ELSE LET ext == mimetypes_guess_extension(mime)
         IN  IF Truthy(ext) THEN (IF ext = ".jpe" THEN ".jpg" ELSE ext)
             ELSE ".bin"

_canonical_mime_for_ext(ext) == MIME_MAP(ext)

\* min_ratio of _is_plaintext, in percent (0.95)
MIN_RATIO_PCT == 95
SAMPLE_BYTES == 65536

\* printable / max(1, len(txt)) >= pct / 100
PrintableShare(txt, pct) ==
    Cardinality({i \in 1..Len(txt) : IsPrintable(txt[i]) \/ IsSpace(txt[i])}) * 100
        >= pct * (IF Len(txt) < 1 THEN 1 ELSE Len(txt))

_is_plaintext(buf) ==
    IF Len(buf) = 0 THEN TRUE
    ELSE IF \E i \in 1..Len(buf) : buf[i] = 0 THEN FALSE
    ELSE PrintableShare(DecodeUtf8(Take(buf, SAMPLE_BYTES)), MIN_RATIO_PCT)

MAX_SCAN_LINES == 200

\* s starts with "{" and ends with "}", or starts with "[" and ends with "]"
Bracketed(s) ==
    \/ HasPrefix(s, B("{")) /\ HasSuffix(s, B("}"))
    \/ HasPrefix(s, B("[")) /\ HasSuffix(s, B("]"))

\* the stripped line s of _looks_like_ndjson's loop after dropping a
\* trailing comma
NdjsonLine(s) ==
    IF HasSuffix(s, B(",")) THEN RStrip(SubSeq(s, 1, Len(s) - 1), BytesSpace) ELSE s

\* json_like >= max(2, int(nonempty * 0.6))
NdjsonEnough(json_like, need) == json_like >= (IF need > 2 THEN need ELSE 2)

\* the loop of _looks_like_ndjson over the lines head, of which those at the
\* indices nonempty are not blank
NdjsonScan(head, nonempty) ==
    /\ Cardinality(nonempty) > 0
    /\ NdjsonEnough(
           Cardinality({i \in nonempty : Bracketed(NdjsonLine(Strip(head[i], BytesSpace)))}),
           (Cardinality(nonempty) * 6) \div 10)

NdjsonHead(head) ==
    IF Len(head) < 2 THEN FALSE
    ELSE NdjsonScan(head, {i \in 1..Len(head) : Strip(head[i], BytesSpace) # <<>>})

_looks_like_ndjson(content) ==
    NdjsonHead(Take(Splitlines(content, BytesBreaks), MAX_SCAN_LINES))


HEAD_BYTES == 4096
JSON_FULL_PARSE_MAX == 2097152     \* 2 * 1024 * 1024
TABLE_SAMPLE_LINES == 20
MAX_DISTINCT_COLS == 3

Decode(encoding, buf) ==
    IF encoding = "utf-16" THEN DecodeUtf16(buf)
    ELSE IF encoding = "utf-8-sig" THEN DecodeUtf8Sig(buf)
    ELSE DecodeUtf8(buf)

\* the encoding _apply_text_heuristics picks from the BOM of text
TextEncoding(text) ==
    IF HasPrefix(text, <<255, 254>>) \/ HasPrefix(text, <<254, 255>>) THEN "utf-16"
    ELSE IF HasPrefix(text, <<239, 187, 191>>) THEN "utf-8-sig"
    ELSE "utf-8"

MD_TOKENS == {<<96, 96, 96>>, B("\n# "), B("\n## "), B("|---")}

\* the JSON step of _apply_text_heuristics: TRUE when it returns ".json"
JsonStep(content, encoding) ==
    IF Len(content) <= JSON_FULL_PARSE_MAX
    THEN JsonLoads(Decode(encoding, content))
    ELSE Bracketed(Strip(content, BytesSpace))

\* os.path.splitext(original_name)[1].lower()
NameExt(original_name) == Lower(SplitextExt(original_name))

\* the filename rescue of _apply_text_heuristics: the rescued type, or NoDT
RescueForCode(name_ext, canon) ==
    IF /\ is_supported_ext(name_ext)
       /\ name_ext \in MimeMapKeys
       /\ name_ext \notin {".txt", ".md", ".html"}
       /\ Truthy(canon) /\ is_supported_mime(canon)
    THEN DetectedType(name_ext, canon,
                      "heuristic:ext rescue for code (" \o name_ext \o ")", None)
    ELSE NoDT

NameRescueForCode(original_name) ==
    IF ~Truthy(original_name) THEN NoDT
    ELSE RescueForCode(NameExt(original_name),
                       _canonical_mime_for_ext(NameExt(original_name)))

\* the delimited-text step: ".csv", ".tsv" or None, from the column counts
\* cols of the sampled lines
DelimitedCols(cols, sep) ==
    IF Cardinality(cols) <= MAX_DISTINCT_COLS /\ Max(cols) > 1
    THEN (IF sep = 44 THEN ".csv" ELSE ".tsv")
    ELSE None

DelimitedLines(first, sep) ==
    DelimitedCols({SplitCount(first[i], sep) : i \in 1..Len(first)}, sep)

NonBlankLines(t) ==
    SelectSeq(Splitlines(t, StrBreaks), LAMBDA ln : Strip(ln, StrSpace) # <<>>)

DelimitedSample(lines, sep) ==
    IF Len(lines) = 0 THEN None ELSE DelimitedLines(Take(lines, TABLE_SAMPLE_LINES), sep)

DelimitedStep(sample) ==
    DelimitedSample(NonBlankLines(sample),
                    IF Count(sample, 44) >= Count(sample, 9) THEN 44 ELSE 9)

\* the content steps of _apply_text_heuristics, with its locals: the
\* encoding, the decoded sample, the result of the filename rescue (rescue)
\* and of the delimited-text step (delimited)
TextSteps(content, encoding, sample, rescue, delimited) ==
    IF _looks_like_ndjson(content)
    THEN DetectedType(".bin", MIME_MAP(".bin"), "magic:text ndjson unsupported", None)
    ELSE IF JsonStep(content, encoding)
    THEN DetectedType(".json", MIME_MAP(".json"),
                      IF Len(content) <= JSON_FULL_PARSE_MAX
                      THEN "magic:text + heuristic:json"
                      ELSE "magic:text + heuristic:json-boundary", None)
    ELSE IF rescue # NoDT THEN rescue
    ELSE IF \E tok \in MD_TOKENS : Occurs(tok, sample)
    THEN DetectedType(".md", MIME_MAP(".md"), "magic:text + heuristic:md", None)
    ELSE IF delimited = ".csv"
    THEN DetectedType(".csv", MIME_MAP(".csv"), "magic:text + heuristic:csv", None)
    ELSE IF delimited = ".tsv"
    THEN DetectedType(".tsv", MIME_MAP(".tsv"), "magic:text + heuristic:tsv", None)
    ELSE IF _is_plaintext(content)
    THEN DetectedType(".txt", MIME_MAP(".txt"), "heuristic:plaintext", None)
    ELSE NoDT

TextStepsOn(content, encoding, sample, original_name) ==
    TextSteps(content, encoding, sample, NameRescueForCode(original_name),
              DelimitedStep(sample))

TextStepsIn(content, encoding, original_name) ==
    TextStepsOn(content, encoding,
                Strip(Decode(encoding, Take(content, HEAD_BYTES)), StrSpace), original_name)

_apply_text_heuristics(content, current_mime, original_name) ==
    IF ~StartsWith(current_mime, TEXT_PREFIX) THEN
        IF current_mime \in MARKDOWN_MIME_ALIASES
        THEN DetectedType(".md", MIME_MAP(".md"), "magic:text markdown alias", None)
        ELSE IF current_mime \in CSV_MIME_ALIASES
        THEN DetectedType(".csv", MIME_MAP(".csv"), "magic:text csv alias", None)
        ELSE IF current_mime \in TSV_MIME_ALIASES
        THEN DetectedType(".tsv", MIME_MAP(".tsv"), "magic:text tsv alias", None)
        ELSE IF current_mime = "application/json"
        THEN DetectedType(".json", MIME_MAP(".json"), "magic:json", None)
        ELSE NoDT
    ELSE IF /\ is_supported_mime(current_mime)
            /\ Truthy(MIME_TO_EXT(current_mime))
            /\ is_supported_ext(MIME_TO_EXT(current_mime))
    THEN DetectedType(MIME_TO_EXT(current_mime), current_mime, "magic:text passthrough", None)
    ELSE TextStepsIn(content, TextEncoding(Take(content, HEAD_BYTES)), original_name)

\* ALIAS_MIME_TO_CANONICAL normalisation of a libmagic MIME, or NoDT
_normalize_magic_mime(mime) ==
    IF ALIAS_MIME_TO_CANONICAL(mime) = <<>> THEN NoDT
    ELSE DetectedType(ALIAS_MIME_TO_CANONICAL(mime)[1], ALIAS_MIME_TO_CANONICAL(mime)[2],
                      "magic:alias normalized from " \o mime, None)


(***************************************************************************)
(* libmagic is outside the repository.  What python-magic does in a call   *)
(* is an input: the module is missing (magic is None), from_buffer raises, *)
(* or from_buffer returns a string (the MIME it reports, possibly empty).  *)
(***************************************************************************)
MAGIC_MISSING == "<magic is None>"
MAGIC_RAISES  == "<from_buffer raises>"

\* the ZIP branch shared by the two ZIP tests of _detect_with_magic and by
\* the signature fallback, from the result ooxml of the OOXML sniff
ZipBranch(ooxml, tag, sep, plain) ==
    IF ooxml # <<>>
    THEN DetectedType(ooxml[1], MIME_MAP(ooxml[1]), tag \o sep \o ooxml[2], ooxml[2])
    ELSE DetectedType(".zip", MIME_MAP(".zip"), tag \o plain, None)

MagicZip(content, tag) ==
    ZipBranch(_sniff_ooxml_from_zip(content), tag, "+ooxml:", ":zip non-OOXML")

\* "magic:empty": rescue by the file name's extension, else .bin
EmptyRescue(original_name, name_ext, canon) ==
    IF /\ Truthy(original_name) /\ is_supported_ext(name_ext)
       /\ Truthy(canon) /\ is_supported_mime(canon)
    THEN DetectedType(name_ext, canon, "magic:empty -> rescued by filename", None)
    ELSE DetectedType(".bin", MIME_MAP(".bin"), "magic:empty unsupported", None)

MagicEmpty(original_name) ==
    EmptyRescue(original_name, NameExt(original_name), MIME_MAP(NameExt(original_name)))

\* the branches of _detect_with_magic for the lower-cased MIME mime, with its
\* locals: the alias normalisation (normalized), the text heuristics
\* (refined) and the extension guessed from the MIME (guessed)
MagicSteps(content, original_name, mime, normalized, refined, guessed) ==
    IF /\ is_supported_mime(mime) /\ Truthy(MIME_TO_EXT(mime))
       /\ is_supported_ext(MIME_TO_EXT(mime))
    THEN DetectedType(MIME_TO_EXT(mime), mime, "magic:direct supported mime", None)
    ELSE IF normalized # NoDT THEN normalized
    ELSE IF mime \in PDF_MIME_ALIASES
    THEN DetectedType(".pdf", MIME_MAP(".pdf"), "magic:pdf alias normalized", None)
    ELSE IF mime \in JPEG_MIME_ALIASES
    THEN DetectedType(".jpg", "image/jpeg", "magic:jpeg alias normalized", None)
    ELSE IF mime \in MARKDOWN_MIME_ALIASES
    THEN DetectedType(".md", MIME_MAP(".md"), "magic:markdown alias normalized", None)
    ELSE IF mime \in CSV_MIME_ALIASES
    THEN DetectedType(".csv", MIME_MAP(".csv"), "magic:csv alias normalized", None)
    ELSE IF mime \in TSV_MIME_ALIASES
    THEN DetectedType(".tsv", MIME_MAP(".tsv"), "magic:tsv alias normalized", None)
    ELSE IF mime \in OLE_MIME_ALIASES
    THEN DetectedType(".ole", MIME_MAP(".ole"), "magic:ole/cfb alias normalized", None)
    ELSE IF mime \in ZIP_MIME_ALIASES THEN MagicZip(content, "magic")
    ELSE IF mime = "application/json"
    THEN DetectedType(".json", MIME_MAP(".json"), "magic:json", None)
    ELSE IF mime \in {"application/x-empty", "inode/x-empty"}
    THEN MagicEmpty(original_name)
    ELSE IF \/ HasPrefix(Take(content, 4), ZIP_SIG)
            \/ HasPrefix(Take(content, 4), ZIP_EMPTY_SIG)
    THEN MagicZip(content, "magic(header zip)")
    ELSE IF refined # NoDT THEN refined
    ELSE DetectedType(IF mime = "image/jpeg" /\ guessed \notin {".jpg", ".jpeg"}
                      THEN ".jpg" ELSE guessed,
                      mime, "magic:mime", None)

MagicMime(content, original_name, mime) ==
    MagicSteps(content, original_name, mime, _normalize_magic_mime(mime),
               _apply_text_heuristics(content, mime, original_name),
               _guess_ext_from_mime(mime))

_detect_with_magic(content, original_name, magic) ==
    IF magic = MAGIC_MISSING \/ magic = MAGIC_RAISES \/ ~Truthy(magic) THEN NoDT
    ELSE MagicMime(content, original_name, Lower(magic))

\* the rescue by original_name of _enforce_supported, or NoDT
NameRescue(dt, original_name, name_ext, canon) ==
    IF /\ Truthy(original_name) /\ is_supported_mime(dt.mime)
       /\ is_supported_ext(name_ext) /\ is_supported_mime(canon)
    THEN DetectedType(name_ext, canon,
                      dt.reason \o " -> rescued by original_name:" \o name_ext, None)
    ELSE NoDT

NameRescueExt(dt, original_name, name_ext) ==
    NameRescue(dt, original_name, name_ext,
               IF Truthy(_canonical_mime_for_ext(name_ext))
               THEN _canonical_mime_for_ext(name_ext) ELSE dt.mime)

EnforceNameRescue(dt, original_name) ==
    NameRescueExt(dt, original_name, NameExt(original_name))

\* the alias branch of the "mime_ok and not ext_ok" case, or NoDT
AliasCanonical(dt, alias) ==
    IF alias # <<>> /\ is_supported_ext(alias[1]) /\ is_supported_mime(alias[2])
    THEN DetectedType(alias[1], alias[2], dt.reason \o " -> alias canonicalized", None)
    ELSE NoDT

EnforceAlias(dt) == AliasCanonical(dt, ALIAS_MIME_TO_CANONICAL(dt.mime))

\* _enforce_supported without its last line: what was not rescued is
\* returned as it came
EnforceCases_NoClamp(dt, ext_ok, mime_ok, alias, rescue) ==
    IF ext_ok /\ mime_ok THEN dt
    ELSE IF ext_ok /\ ~mime_ok THEN
        (IF /\ Truthy(_canonical_mime_for_ext(dt.ext))
            /\ is_supported_mime(_canonical_mime_for_ext(dt.ext))
         THEN DetectedType(dt.ext, _canonical_mime_for_ext(dt.ext),
                           dt.reason \o " -> canonicalized mime for " \o dt.ext, None)
         ELSE DetectedType(".bin", MIME_MAP(".bin"),
                           dt.reason \o " -> unsupported (bad mime)", None))
    ELSE IF /\ mime_ok /\ ~ext_ok /\ Truthy(MIME_TO_EXT(dt.mime))
            /\ is_supported_ext(MIME_TO_EXT(dt.mime))
    THEN DetectedType(MIME_TO_EXT(dt.mime), dt.mime,
                      dt.reason \o " -> canonicalized ext from mime", None)
    ELSE IF mime_ok /\ ~ext_ok /\ alias # NoDT THEN alias
    ELSE IF rescue # NoDT THEN rescue
    ELSE dt

\* the cases of _enforce_supported, with its locals ext_ok and mime_ok, the
\* alias branch (alias) and the rescue by original_name (rescue)
EnforceCases(dt, ext_ok, mime_ok, alias, rescue) ==
    IF ext_ok /\ mime_ok THEN dt
    ELSE IF ext_ok /\ ~mime_ok THEN
        (IF /\ Truthy(_canonical_mime_for_ext(dt.ext))
            /\ is_supported_mime(_canonical_mime_for_ext(dt.ext))
         THEN DetectedType(dt.ext, _canonical_mime_for_ext(dt.ext),
                           dt.reason \o " -> canonicalized mime for " \o dt.ext, None)
         ELSE DetectedType(".bin", MIME_MAP(".bin"),
                           dt.reason \o " -> unsupported (bad mime)", None))
    ELSE IF /\ mime_ok /\ ~ext_ok /\ Truthy(MIME_TO_EXT(dt.mime))
            /\ is_supported_ext(MIME_TO_EXT(dt.mime))
    THEN DetectedType(MIME_TO_EXT(dt.mime), dt.mime,
                      dt.reason \o " -> canonicalized ext from mime", None)
    ELSE IF mime_ok /\ ~ext_ok /\ alias # NoDT THEN alias
    ELSE IF rescue # NoDT THEN rescue
    ELSE DetectedType(".bin", MIME_MAP(".bin"), dt.reason \o " -> unsupported", None)

_enforce_supported(dt, original_name) ==
    EnforceCases(dt, is_supported_ext(dt.ext), is_supported_mime(dt.mime),
                 EnforceAlias(dt), EnforceNameRescue(dt, original_name))

\* the signature fallback of FileTypeDetector.detect for the first bytes
\* head, or NoDT when no signature matches
SignatureOf(content, head, name_ext) ==
    IF HasPrefix(head, PDF_SIG)
    THEN DetectedType(".pdf", MIME_MAP(".pdf"), "fallback sig:%PDF-", None)
    ELSE IF HasPrefix(head, PNG_SIG)
    THEN DetectedType(".png", MIME_MAP(".png"), "fallback sig:PNG", None)
    ELSE IF HasPrefix(head, JPG_SIG_PREFIX)
    THEN DetectedType(".jpg", MIME_MAP(".jpg"), "fallback sig:JPEG", None)
    ELSE IF HasPrefix(head, OLE_CFB_SIG) THEN
        (IF name_ext \in {".doc", ".xls", ".ppt"}
         THEN DetectedType(name_ext, MIME_MAP(name_ext),
                           "fallback sig:OLE + hint:" \o name_ext, None)
         ELSE DetectedType(".ole", MIME_MAP(".ole"), "fallback sig:OLE undetermined", None))
    ELSE IF HasPrefix(head, ZIP_SIG) \/ HasPrefix(head, ZIP_EMPTY_SIG)
    THEN ZipBranch(_sniff_ooxml_from_zip(content), "fallback ", "zip+ooxml:", "sig:ZIP non-OOXML")
    ELSE NoDT

\* a signature fallback that does not look at the filename
FallbackSignature_NoHint(content, original_name) ==
    SignatureOf(content, Take(content, 16), None)

FallbackSignature(content, original_name) ==
    SignatureOf(content, Take(content, 16),
                IF Truthy(original_name) THEN NameExt(original_name) ELSE None)

\* detect with the text heuristics tried before the signatures
DetectPaths_TextFirst(dt, sig, refined, original_name) ==
    IF dt # NoDT THEN _enforce_supported(dt, original_name)
    ELSE IF refined # NoDT THEN _enforce_supported(refined, original_name)
    ELSE IF sig # NoDT THEN sig
    ELSE DetectedType(".bin", MIME_MAP(".bin"), "fallback:unknown", None)

\* the paths of FileTypeDetector.detect, from the result of the libmagic
\* path (dt), of the signature fallback (sig) and of the text heuristics
\* on "text/plain" (refined)
DetectPaths(dt, sig, refined, original_name) ==
    IF dt # NoDT THEN _enforce_supported(dt, original_name)
    ELSE IF sig # NoDT THEN sig
    ELSE IF refined # NoDT THEN _enforce_supported(refined, original_name)
    ELSE DetectedType(".bin", MIME_MAP(".bin"), "fallback:unknown", None)

\* FileTypeDetector.detect(content, original_name)
detect(content, original_name, magic) ==
    DetectPaths(_detect_with_magic(content, original_name, magic),
                FallbackSignature(content, original_name),
                _apply_text_heuristics(content, "text/plain", original_name),
                original_name)


(***************************************************************************)
(* _nhpo_detector.py: NHPODetector, the detector without libmagic          *)
(***************************************************************************)
CODE_EXT == {".py", ".js", ".ts", ".java", ".c", ".cpp", ".cs", ".rb", ".php", ".go", ".sh"}
TEXTY_EXT == CODE_EXT \cup {".md", ".json", ".html", ".tex", ".txt", ".csv", ".tsv"}

\* _sniff_ooxml on the names of an opened archive
SniffPrefixes(names) ==
    IF \E n \in names : HasPrefix(n, B("word/"))
    THEN DetectedType(".docx", MIME_MAP(".docx"), "zip+ooxml:docx", "word/")
    ELSE IF \E n \in names : HasPrefix(n, B("xl/"))
    THEN DetectedType(".xlsx", MIME_MAP(".xlsx"), "zip+ooxml:xlsx", "xl/")
    ELSE IF \E n \in names : HasPrefix(n, B("ppt/"))
    THEN DetectedType(".pptx", MIME_MAP(".pptx"), "zip+ooxml:pptx", "ppt/")
    ELSE NoDT

SniffOpened(zf) == IF ~ZipOk(zf) THEN NoDT ELSE SniffPrefixes(ZipNames(zf))

NHPO_sniff_ooxml(buf) == SniffOpened(ZipFile(buf))

\* min_ratio of NHPODetector._is_text, in percent (0.80)
TEXT_MIN_RATIO_PCT == 80

NHPO_is_text(buf) ==
    IF Len(buf) = 0 THEN TRUE
    ELSE IF \E i \in 1..Len(buf) : buf[i] = 0 THEN FALSE
    ELSE PrintableShare(DecodeUtf8(Take(buf, SAMPLE_BYTES)), TEXT_MIN_RATIO_PCT)

\* the keyword lists of _guess_code_ext, in the order of the scores dict
CODE_KEYWORDS ==
    << <<".ts",   <<B("interface "), B("type "), B("enum "), B("readonly "),
                    B("implements "), B(" as const")>> >>,
       <<".js",   <<B("function "), B("=>"), B("const "), B("let "), B("export "),
                    B("import "), B("console.log(")>> >>,
       <<".py",   <<B("def "), B("from "), B("import "), B("class "), B("__name__")>> >>,
       <<".java", <<B("package "), B("public class "), B("class "),
                    B("public static void main")>> >>,
       <<".cpp",  <<B("#include"), B("std::"), B("using namespace"), B("template<")>> >>,
       <<".c",    <<B("#include"), B("int main("), B("printf(")>> >>,
       <<".cs",   <<B("using System"), B("namespace "), B("Console.WriteLine"),
                    B("public class ")>> >>,
       <<".go",   <<B("package "), B("func "), B("fmt."), B("import ("), B("go func(")>> >>,
       <<".rb",   <<B("def "), B("\nend\n"), B("class "), B("module ")>> >>,
       <<".sh",   <<B("#!/bin/sh"), B("#!/bin/bash"), B("\nif ["), B("\nfi"), B("echo ")>> >> >>

\* the threshold of _guess_code_ext: "ext if sc >= 2 else None"
CODE_SCORE_MIN == 2

\* scores[ext]: how many keywords of language i occur in t
Score(t, i) ==
    Cardinality({k \in 1..Len(CODE_KEYWORDS[i][2]) : Occurs(CODE_KEYWORDS[i][2][k], t)})

\* the interpreter names of the shebang branch
SHEBANG_PY == B("python")
SHEBANG_JS == {B("node"), B("deno")}
SHEBANG_SH == {B("bash"), B("sh"), B("dash")}
SHEBANG_PHP == B("php")
SHEBANG_RB == {B("ruby"), B("jruby")}
SHEBANG_GO == B("go")

\* the shebang branch of _guess_code_ext: an extension, or None
Shebang(first) ==
    IF ~HasPrefix(first, B("#!")) THEN None
    ELSE IF Occurs(SHEBANG_PY, first) THEN ".py"
    ELSE IF \E w \in SHEBANG_JS : Occurs(w, first) THEN ".js"
    ELSE IF \E w \in SHEBANG_SH : Occurs(w, first) THEN ".sh"
    ELSE IF Occurs(SHEBANG_PHP, first) THEN ".php"
    ELSE IF \E w \in SHEBANG_RB : Occurs(w, first) THEN ".rb"
    ELSE IF Occurs(SHEBANG_GO, first) THEN ".go"
    ELSE None

\* _guess_code_ext with one keyword enough: "ext if sc >= 1 else None"
BestScore_OneKeyword(txt, best) ==
    IF best >= 1
    THEN CODE_KEYWORDS[Min({i \in 1..Len(CODE_KEYWORDS) : Score(txt, i) = best})][1]
    ELSE None

\* max(scores.items(), key=...): the first language with the best score,
\* when that score reaches the threshold
BestScore(txt, best) ==
    IF best >= CODE_SCORE_MIN
    THEN CODE_KEYWORDS[Min({i \in 1..Len(CODE_KEYWORDS) : Score(txt, i) = best})][1]
    ELSE None

GuessCode(txt, shebang) ==
    IF shebang # None THEN shebang
    ELSE IF Occurs(B("<?php"), txt) THEN ".php"
    ELSE BestScore(txt, Max({Score(txt, i) : i \in 1..Len(CODE_KEYWORDS)}))

NHPO_guess_code_ext(txt) ==
    GuessCode(txt, Shebang(LowerText(IF Len(txt) > 0 THEN Splitlines(txt, StrBreaks)[1]
                                     ELSE <<>>)))

CSV_SAMPLE_LINES == 50
CSV_MIN_PCT == 70

\* sum(1 for c in cols if c > 1) / len(cols) >= 0.7, for the separator sep
\* over the sampled lines first
MostlyColumns(first, sep) ==
    Cardinality({i \in 1..Len(first) : SplitCount(first[i], sep) > 1}) * 100
        >= CSV_MIN_PCT * Len(first)

\* the steps of _heuristic_text, with its locals: the decoded text, the
\* extension of original_name, the guessed code extension, the lower-cased
\* text and the non-blank lines
HeuristicSteps(txt, name_ext, code_ext, low, lines) ==
    IF /\ name_ext \in TEXTY_EXT /\ name_ext \in MimeMapKeys /\ name_ext # ".txt"
       /\ (name_ext \in CODE_EXT
           \/ name_ext \in {".md", ".json", ".html", ".tex", ".csv", ".tsv"})
    THEN DetectedType(name_ext, MIME_MAP(name_ext), "rescue by name:" \o name_ext, None)
    ELSE IF code_ext # None /\ code_ext \in CODE_EXT
    THEN DetectedType(code_ext, MIME_MAP(code_ext), "heuristic:code", None)
    ELSE IF JsonLoads(txt)
    THEN DetectedType(".json", MIME_MAP(".json"), "heuristic:json", None)
    ELSE IF \/ Occurs(B("<!doctype html"), low) \/ Occurs(B("<html"), low)
            \/ Occurs(B("<head"), low) \/ Occurs(B("<body"), low)
    THEN DetectedType(".html", MIME_MAP(".html"), "heuristic:html", None)
    ELSE IF Len(lines) > 0 /\ MostlyColumns(Take(lines, CSV_SAMPLE_LINES), 44)
    THEN DetectedType(".csv", MIME_MAP(".csv"), "heuristic:csv", None)
    ELSE IF Len(lines) > 0 /\ MostlyColumns(Take(lines, CSV_SAMPLE_LINES), 9)
    THEN DetectedType(".tsv", MIME_MAP(".tsv"), "heuristic:tsv", None)
    ELSE IF \/ \E tok \in MD_TOKENS : Occurs(tok, txt)
            \/ HasPrefix(txt, B("# "))
    THEN DetectedType(".md", MIME_MAP(".md"), "heuristic:md", None)
    ELSE IF \/ Occurs(B("\\documentclass"), txt) \/ Occurs(B("\\begin{document}"), txt)
            \/ Occurs(B("\\usepackage"), txt)
    THEN DetectedType(".tex", MIME_MAP(".tex"), "heuristic:tex", None)
    ELSE DetectedType(".txt", MIME_MAP(".txt"), "heuristic:txt", None)

HeuristicText(txt, name_ext) ==
    HeuristicSteps(txt, name_ext, NHPO_guess_code_ext(txt), LowerText(txt), NonBlankLines(txt))

NHPO_heuristic_text(content, original_name) ==
    HeuristicText(DecodeUtf8(Take(content, SAMPLE_BYTES)),
                  IF Truthy(original_name) THEN NameExt(original_name) ELSE None)

\* the branches of NHPODetector.detect for the first bytes head
NHPOBranches(content, original_name, head, name_ext, ooxml) ==
    IF HasPrefix(head, PDF_SIG) THEN DetectedType(".pdf", MIME_MAP(".pdf"), "sig:pdf", None)
    ELSE IF HasPrefix(head, PNG_SIG)
    THEN DetectedType(".png", MIME_MAP(".png"), "sig:png", None)
    ELSE IF HasPrefix(head, JPG_SIG_PREFIX)
    THEN DetectedType(".jpg", MIME_MAP(".jpg"), "sig:jpeg", None)
    ELSE IF HasPrefix(head, OLE_CFB_SIG) THEN
        (IF Truthy(original_name) /\ name_ext \in {".doc", ".xls", ".ppt"}
         THEN DetectedType(name_ext, MIME_MAP(name_ext), "sig:ole+" \o name_ext, None)
         ELSE DetectedType(".ole", MIME_MAP(".ole"), "sig:ole", None))
    ELSE IF HasPrefix(head, ZIP_SIG) \/ HasPrefix(head, ZIP_EMPTY_SIG) THEN
        (IF ooxml # NoDT THEN ooxml
         ELSE IF Truthy(original_name) /\ name_ext \in {".docx", ".xlsx", ".pptx"}
         THEN DetectedType(name_ext, MIME_MAP(name_ext), "sig rescue by name:" \o name_ext, None)
         ELSE DetectedType(".zip", MIME_MAP(".zip"), "sig:zip", None))
    ELSE IF NHPO_is_text(content) THEN NHPO_heuristic_text(content, original_name)
    ELSE DetectedType(".bin", MIME_MAP(".bin"), "fallback:unknown", None)

\* NHPODetector.detect(content, original_name)
NHPO_detect(content, original_name) ==
    NHPOBranches(content, original_name, Take(content, 8), NameExt(original_name),
                 NHPO_sniff_ooxml(content))


(***************************************************************************)
(* _helpers.py: Helper, the content fetcher.  File names and URLs are      *)
(* taken apart as sequences of code points (B) and put together again as   *)
(* strings (Str); the inputs are ASCII.                                    *)
(***************************************************************************)
\* chr() of a printable ASCII code point or of "\n", "\t", "\r"
Chr(n) ==
    IF n = 10 THEN "\n"
    ELSE IF n = 9 THEN "\t"
    ELSE IF n = 13 THEN "\r"
    ELSE IF n <= 95 THEN Ch(AsciiLo, n - 31)
    ELSE Ch(AsciiHi, n - 96)

\* the str of a sequence of code points
RECURSIVE Str(_)
Str(t) == IF t = <<>> THEN "" ELSE Chr(Head(t)) \o Str(Tail(t))

\* str(n) of a natural number, as code points
RECURSIVE Digits(_)
Digits(n) == IF n < 10 THEN <<48 + n>> ELSE Digits(n \div 10) \o <<48 + (n % 10)>>

\* int(s) of a string of ASCII digits
RECURSIVE IntOf(_)
IntOf(t) == IF t = <<>> THEN 0 ELSE 10 * IntOf(SubSeq(t, 1, Len(t) - 1)) + (t[Len(t)] - 48)

\* str.isdigit() on ASCII
IsDigitStr(t) == t # <<>> /\ \A i \in 1..Len(t) : IsDigit(t, i)

\* MAX_BYTES (50 * 1024 * 1024 in the source) and the chunk size of
\* iter_content and f.read (8192 in the source), scaled down so that contents
\* on both sides of the cap are enumerated
MAX_BYTES == 8
CHUNK_SIZE == 4

\* Optional[bytes]: None, and a read that raised
NoBytes == <<-1>>
RaisedBytes == <<-2>>
\* what resp.iter_content yields when the connection breaks: it raises
StreamError == <<-3>>

\* the loop of _read_url_with_cap over the chunks still to come, with its
\* locals total and chunks (joined)
RECURSIVE UrlLoop(_, _, _, _)
UrlLoop(stream, total, joined, max_bytes) ==
    IF stream = <<>> THEN joined
    ELSE IF Head(stream) = StreamError THEN RaisedBytes
    ELSE IF Head(stream) = <<>> THEN UrlLoop(Tail(stream), total, joined, max_bytes)
    ELSE IF total + Len(Head(stream)) > max_bytes THEN NoBytes
    ELSE UrlLoop(Tail(stream), total + Len(Head(stream)), joined \o Head(stream), max_bytes)

_read_url_with_cap(stream, max_bytes) == UrlLoop(stream, 0, <<>>, max_bytes)

\* the loop of _read_local_with_cap over what is left of the file, with the
\* buffer buf that f.read(8192) returned
RECURSIVE LocalLoop(_, _, _, _, _)
LocalLoop(buf, left, total, joined, max_bytes) ==
    IF buf = <<>> THEN joined
    ELSE IF total + Len(buf) > max_bytes THEN NoBytes
    ELSE LocalLoop(Take(left, CHUNK_SIZE), SubSeq(left, CHUNK_SIZE + 1, Len(left)),
                   total + Len(buf), joined \o buf, max_bytes)

\* a file of the local file system: whether the path exists, the size
\* os.path.getsize reports (NoSize when it raises OSError), whether open()
\* succeeds, and the bytes a read returns
NoSize == -1
LocalFile(exists, fsize, readable, data) ==
    [exists |-> exists, fsize |-> fsize, readable |-> readable, data |-> data]

_read_local_with_cap(file, max_bytes) ==
    IF ~file.readable THEN RaisedBytes
    ELSE LocalLoop(Take(file.data, CHUNK_SIZE),
                   SubSeq(file.data, CHUNK_SIZE + 1, Len(file.data)), 0, <<>>, max_bytes)

\* re.sub(r"[...]+", repl, t): every maximal run of elements of set is
\* replaced by repl
RECURSIVE ReSubRuns(_, _, _)
ReSubRuns(t, set, repl) ==
    IF t = <<>> THEN <<>>
    ELSE IF Head(t) \notin set THEN <<Head(t)>> \o ReSubRuns(Tail(t), set, repl)
    ELSE IF Len(t) > 1 /\ t[2] \in set THEN ReSubRuns(Tail(t), set, repl)
    ELSE repl \o ReSubRuns(Tail(t), set, repl)

\* [a-z0-9]
LowerAlnum == (97..122) \cup (48..57)

\* the index of the last x in t, or 0
LastIndex(t, x) == Max({0} \cup {i \in 1..Len(t) : t[i] = x})

VALUE_ERROR == "<ValueError>"

\* the end of standardize_file_name, from the cleaned stem and ext
StandardizeJoin(stem, ext) ==
    IF ext = <<>> THEN VALUE_ERROR ELSE Str(stem \o B(".") \o ext)

\* filename.rsplit(".", 1), for the index dot of the last "." (0: none)
StandardizeSplit(t, dot) ==
    StandardizeJoin(
        Strip(ReSubRuns(ReSubRuns(IF dot = 0 THEN t ELSE SubSeq(t, 1, dot - 1),
                                  {32, 46, 45}, B("_")),
                        {95}, B("_")),
              {95}),
        SelectSeq(IF dot = 0 THEN <<>> ELSE SubSeq(t, dot + 1, Len(t)),
                  LAMBDA c : c \in LowerAlnum))

StandardizeLowered(t) == StandardizeSplit(t, LastIndex(t, 46))

\* Helper.standardize_file_name: the name, or VALUE_ERROR when it raises
standardize_file_name(filename) == StandardizeLowered(LowerText(Strip(B(filename), StrSpace)))

HexVal(c) == IF c <= 57 THEN c - 48 ELSE IF c <= 70 THEN c - 55 ELSE c - 87

\* urllib.parse.unquote on ASCII text: "%XX" becomes the character of code XX
\* (escapes of bytes above 127 are outside the inputs)
RECURSIVE Unquote(_)
Unquote(t) ==
    IF t = <<>> THEN <<>>
    ELSE IF t[1] = 37 /\ IsHex(t, 2) /\ IsHex(t, 3)
    THEN <<16 * HexVal(t[2]) + HexVal(t[3])>> \o Unquote(SubSeq(t, 4, Len(t)))
    ELSE <<t[1]>> \o Unquote(Tail(t))

\* re.split(r"[\\/]", s)[-1]
LastSegment(t) == SubSeq(t, Max({0} \cup {i \in 1..Len(t) : t[i] \in {47, 92}}) + 1, Len(t))

\* Helper._clean_name, on code points
_clean_name(raw) == LastSegment(Strip(Strip(Unquote(raw), StrSpace), {34}))

\* the index after the maximal run, from index i on, of elements of set
\* (RunIn) and of elements not of set (RunNotIn)
RECURSIVE RunIn(_, _, _)
RunIn(t, i, set) == IF i <= Len(t) /\ t[i] \in set THEN RunIn(t, i + 1, set) ELSE i
RECURSIVE RunNotIn(_, _, _)
RunNotIn(t, i, set) == IF i <= Len(t) /\ t[i] \notin set THEN RunNotIn(t, i + 1, set) ELSE i

\* a regular expression that does not match
NoMatch == <<-1>>

\* re.search: group 1 of the match at the leftmost index where the
\* expression At matches
SearchFirst(At(_, _), t) ==
    IF \E i \in 1..Len(t) : At(t, i) # NoMatch
    THEN At(t, Min({i \in 1..Len(t) : At(t, i) # NoMatch}))
    ELSE NoMatch

\* filename\*\s*=\s*[^'"]+''([^\s;]+) with re.I, matched at index i: "=" is
\* at b, the run [^'"]+ is c..d-1, the group ends before e
StarGroup(t, d, e) == IF e > d + 2 THEN SubSeq(t, d + 2, e - 1) ELSE NoMatch
StarCharset(t, c, d) ==
    IF d > c /\ d + 1 <= Len(t) /\ t[d] = 39 /\ t[d + 1] = 39
    THEN StarGroup(t, d, RunNotIn(t, d + 2, StrSpace \cup {59}))
    ELSE NoMatch
StarEquals(t, b) ==
    IF b <= Len(t) /\ t[b] = 61
    THEN StarCharset(t, b + 1, RunNotIn(t, b + 1, {39, 34}))
    ELSE NoMatch
FilenameStarAt(t, i) ==
    IF HasAt(LowerText(t), i, B("filename*"))
    THEN StarEquals(t, RunIn(t, i + 9, StrSpace))
    ELSE NoMatch

\* filename\s*=\s*"([^"]+)" with re.I, matched at index i: the opening quote
\* is at c, the closing one at d
QuotedGroup(t, c, d) ==
    IF d > c + 1 /\ d <= Len(t) THEN SubSeq(t, c + 1, d - 1) ELSE NoMatch
QuotedOpen(t, c) ==
    IF c <= Len(t) /\ t[c] = 34 THEN QuotedGroup(t, c, RunNotIn(t, c + 1, {34})) ELSE NoMatch
QuotedEquals(t, b) ==
    IF b <= Len(t) /\ t[b] = 61 THEN QuotedOpen(t, RunIn(t, b + 1, StrSpace)) ELSE NoMatch
FilenameQuotedAt(t, i) ==
    IF HasAt(LowerText(t), i, B("filename"))
    THEN QuotedEquals(t, RunIn(t, i + 8, StrSpace))
    ELSE NoMatch

\* filename\s*=\s*([^";]+) with re.I, matched at index i: "=" is at b, the
\* white space after it ends before c, the group before d; when nothing
\* follows the white space, \s* gives its last character to the group
PlainGroup(t, b, c, d) ==
    IF d > c THEN SubSeq(t, c, d - 1)
    ELSE IF c > b + 1 THEN SubSeq(t, c - 1, c - 1)
    ELSE NoMatch
PlainSpace(t, b, c) == PlainGroup(t, b, c, RunNotIn(t, c, {34, 59}))
PlainEquals(t, b) ==
    IF b <= Len(t) /\ t[b] = 61 THEN PlainSpace(t, b, RunIn(t, b + 1, StrSpace)) ELSE NoMatch
FilenamePlainAt(t, i) ==
    IF HasAt(LowerText(t), i, B("filename"))
    THEN PlainEquals(t, RunIn(t, i + 8, StrSpace))
    ELSE NoMatch

\* urllib.parse.urlparse(url).path of an http(s) URL: what follows the
\* network location, up to the first "?" or "#", without the parameters
\* that follow the first ";" of the last segment
PathParams(path, semi) == IF semi > Len(path) THEN path ELSE SubSeq(path, 1, semi - 1)
PathOnly(path) == PathParams(path, RunNotIn(path, LastIndex(path, 47) + 1, {59}))
UrlFrom(t, n) == PathOnly(SubSeq(t, n, RunNotIn(t, n, {63, 35}) - 1))
UrlPath(t) ==
    UrlFrom(t, RunNotIn(t, (IF HasPrefix(LowerText(t), B("https://")) THEN 9 ELSE 8),
                        {47, 63, 35}))

\* the steps of _derive_original_name, from the group of each of the three
\* expressions and the cleaned base name of the URL
DeriveSteps(star, quoted, plain, name, suffix) ==
    IF star # NoMatch THEN Str(_clean_name(star))
    ELSE IF quoted # NoMatch THEN Str(_clean_name(quoted))
    ELSE IF plain # NoMatch THEN Str(_clean_name(plain))
    ELSE IF name # <<>> THEN Str(name)
    ELSE "download_noname_" \o suffix

\* Helper._derive_original_name(url, headers), for the Content-Disposition
\* header cd (None when absent) and the value suffix of _numeric_suffix()
_derive_original_name(url, cd, suffix) ==
    DeriveSteps(IF Truthy(cd) THEN SearchFirst(FilenameStarAt, B(cd)) ELSE NoMatch,
                IF Truthy(cd) THEN SearchFirst(FilenameQuotedAt, B(cd)) ELSE NoMatch,
                IF Truthy(cd) THEN SearchFirst(FilenamePlainAt, B(cd)) ELSE NoMatch,
                _clean_name(LastSegment(UrlPath(B(url)))), suffix)

\* _models.FileDetail; content is the bytes of its BytesIO
FileDetail(file_name, mime_type, content) ==
    [file_name |-> file_name, mime_type |-> mime_type, content |-> content]
\* Optional[FileDetail]: None
NoDetail == FileDetail(None, None, NoBytes)
\* an exception raised inside the try block of a fetch
Raised == FileDetail("<raised>", None, RaisedBytes)

\* "except Exception: return None"
Caught(d) == IF d = Raised THEN NoDetail ELSE d

\* the end of both fetches: the supported check, the final name, the result
BuildNamed(filename, detail, content) ==
    IF filename = VALUE_ERROR THEN Raised ELSE FileDetail(filename, detail.mime, content)
BuildDetail(stem, detail, content) ==
    IF ~is_supported_ext(detail.ext) THEN NoDetail
    ELSE BuildNamed(standardize_file_name(stem \o detail.ext), detail, content)

\* the fetches from the content on: None and an exception end them
Detected(stem, original_name, content, magic) ==
    IF content = NoBytes THEN NoDetail
    ELSE IF content = RaisedBytes THEN Raised
    ELSE BuildDetail(stem, detect(content, original_name, magic), content)

\* an HTTP response: whether requests.get and raise_for_status succeed, the
\* Content-Disposition and Content-Length headers (None when absent) and
\* what iter_content yields
Response(ok, cd, cl, stream) == [ok |-> ok, cd |-> cd, cl |-> cl, stream |-> stream]

UrlNamed(resp, original_name, magic) ==
    IF Truthy(resp.cl) /\ IsDigitStr(B(resp.cl)) /\ IntOf(B(resp.cl)) > MAX_BYTES
    THEN NoDetail
    ELSE Detected(SplitextRoot(original_name), original_name,
                  _read_url_with_cap(resp.stream, MAX_BYTES), magic)

\* Helper._get_detail_from_url
_get_detail_from_url(url, resp, magic, suffix) ==
    Caught(IF ~resp.ok THEN Raised
           ELSE UrlNamed(resp, _derive_original_name(url, resp.cd, suffix), magic))

LocalBase(file, base, magic) ==
    IF file.fsize # NoSize /\ file.fsize > MAX_BYTES THEN NoDetail
    ELSE IF file.fsize = NoSize
    THEN Detected(base, base, _read_local_with_cap(file, MAX_BYTES), magic)
    ELSE Detected(base, base, IF file.readable THEN file.data ELSE RaisedBytes, magic)

\* a fetch that keeps the last extension in the name it passes on
_get_detail_from_local_path_FullName(file_path, file, magic) ==
    IF ~file.exists THEN NoDetail
    ELSE Caught(LocalBase(file, Basename(file_path), magic))

\* Helper._get_detail_from_local_path
_get_detail_from_local_path(file_path, file, magic) ==
    IF ~file.exists THEN NoDetail
    ELSE Caught(LocalBase(file, SplitextRoot(Basename(file_path)), magic))


(***************************************************************************)
(* utils/stager.py.  A pathlib path on POSIX is its root ("/" or "") and   *)
(* its components.  The file system maps the absolute path of every file   *)
(* and symbolic link to what is there; directories are created as needed.  *)
(* What pandas, zipfile and LibreOffice make of a file follows from the    *)
(* form of its data: "text", "csv", "workbook", "slides", "zip", "binary". *)
(***************************************************************************)
\* _supported.INDEXABLE_EXT, imported by stager.py as INDEXABLE
INDEXABLE ==
    {".pdf", ".doc", ".docx", ".pptx", ".txt", ".md", ".html", ".py", ".js", ".ts",
     ".java", ".c", ".cpp", ".cs", ".rb", ".php", ".tex", ".json"}

\* str.split(sep) for a one-character separator
RECURSIVE SplitStr(_, _)
SplitStr(s, sep) ==
    IF Positions(s, sep) = {} THEN <<s>>
    ELSE <<SubSeq(s, 1, Min(Positions(s, sep)) - 1)>>
            \o SplitStr(SubSeq(s, Min(Positions(s, sep)) + 1, Len(s)), sep)

\* sep.join(list)
RECURSIVE JoinStr(_, _)
JoinStr(list, sep) ==
    IF list = <<>> THEN ""
    ELSE IF Len(list) = 1 THEN list[1]
    ELSE list[1] \o sep \o JoinStr(Tail(list), sep)

\* str.endswith(suffix)
EndsWith(s, suffix) ==
    Len(s) >= Len(suffix) /\ SubSeq(s, Len(s) - Len(suffix) + 1, Len(s)) = suffix

\* pathlib.Path(s): empty and "." components are dropped, ".." ones are kept
PurePath(root, parts) == [root |-> root, parts |-> parts]
Path(s) ==
    PurePath(IF StartsWith(s, "/") THEN "/" ELSE "",
             SelectSeq(SplitStr(s, "/"), LAMBDA c : c # "" /\ c # "."))

\* str(p)
PathStr(p) ==
    IF p.parts = <<>> THEN (IF p.root = "" THEN "." ELSE p.root)
    ELSE p.root \o JoinStr(p.parts, "/")

\* p.name, p.suffix, p.stem, p.parent, p / child
PathName(p) == IF p.parts = <<>> THEN "" ELSE p.parts[Len(p.parts)]
SuffixAt(name, i) == IF i > 1 /\ i < Len(name) THEN i ELSE 0
SuffixDot(name) == SuffixAt(name, Max({0} \cup Positions(name, ".")))
NameSuffix(name) ==
    IF SuffixDot(name) = 0 THEN "" ELSE SubSeq(name, SuffixDot(name), Len(name))
NameStem(name) ==
    IF SuffixDot(name) = 0 THEN name ELSE SubSeq(name, 1, SuffixDot(name) - 1)
PathSuffix(p) == NameSuffix(PathName(p))
PathStem(p) == NameStem(PathName(p))
PathParent(p) ==
    IF p.parts = <<>> THEN p ELSE PurePath(p.root, SubSeq(p.parts, 1, Len(p.parts) - 1))
PathJoinTo(p, child) ==
    IF child.root = "/" THEN child ELSE PurePath(p.root, p.parts \o child.parts)
PathJoin(p, s) == PathJoinTo(p, Path(s))

\* the working directory of the process
CWD == "/work"

\* what is at a path of the file system: a file with its data, or a
\* symbolic link with its target
Data(form, text, sheets, members) ==
    [form |-> form, text |-> text, sheets |-> sheets, members |-> members]
TextData(text) == Data("text", text, <<>>, <<>>)
NoData == Data("none", "", <<>>, <<>>)
FileNode(data) == [kind |-> "file", data |-> data, target |-> None]
LinkNode(target) == [kind |-> "link", data |-> NoData, target |-> target]
\* a member of a ZIP archive: ZipInfo.filename and the member's data
Member(filename, data) == [filename |-> filename, data |-> data]

IsLink(fs, key) == key \in DOMAIN fs /\ fs[key].kind = "link"

\* p.resolve(): absolute, ".." taken out, symbolic links followed (the file
\* systems have no link loops); done are the resolved components so far
RECURSIVE ResolveParts(_, _, _)
ResolveParts(fs, done, todo) ==
    IF todo = <<>> THEN done
    ELSE IF Head(todo) = ".."
    THEN ResolveParts(fs, SubSeq(done, 1, Len(done) - 1), Tail(todo))
    ELSE IF IsLink(fs, PathStr(PurePath("/", Append(done, Head(todo)))))
    THEN ResolveParts(
             fs,
             IF StartsWith(fs[PathStr(PurePath("/", Append(done, Head(todo))))].target, "/")
             THEN <<>> ELSE done,
             Path(fs[PathStr(PurePath("/", Append(done, Head(todo))))].target).parts
                 \o Tail(todo))
    ELSE ResolveParts(fs, Append(done, Head(todo)), Tail(todo))

Resolve(fs, p) ==
    PurePath("/", ResolveParts(fs, IF p.root = "/" THEN <<>> ELSE Path(CWD).parts, p.parts))

\* the key of the file a path names, for open()
FileKey(fs, s) == PathStr(Resolve(fs, Path(s)))
IsFile(fs, s) == FileKey(fs, s) \in DOMAIN fs /\ fs[FileKey(fs, s)].kind = "file"
ReadData(fs, s) == fs[FileKey(fs, s)].data

\* the file system after data is written to the key
WriteKey(fs, key, data) ==
    [k \in DOMAIN fs \cup {key} |-> IF k = key THEN FileNode(data) ELSE fs[k]]
WriteFile(fs, s, data) == WriteKey(fs, FileKey(fs, s), data)

\* the outcome of a staging function: the exception it raised (None: it
\* returned), the value it returned, the file system it left
Staged(value, fs) == [raised |-> None, value |-> value, fs |-> fs]
Failed(exc, fs) == [raised |-> exc, value |-> <<>>, fs |-> fs]

\* the characters _sanitize_filename replaces:  / \ : * ? " < > |
UNSAFE_CHARS == {47, 92, 58, 42, 63, 34, 60, 62, 124}

SanitizedOr(t) == IF t = <<>> THEN "sheet" ELSE Str(t)
_sanitize_filename(name) ==
    SanitizedOr(Strip([i \in 1..Len(B(name)) |->
                          IF B(name)[i] \in UNSAFE_CHARS THEN 95 ELSE B(name)[i]],
                      StrSpace))

\* str(sheet).replace("/", "_").replace("\\", "_").strip()
SafeSheet(sheet) ==
    Str(Strip([i \in 1..Len(B(sheet)) |->
                  IF B(sheet)[i] \in {47, 92} THEN 95 ELSE B(sheet)[i]],
              StrSpace))

\* df.to_markdown(index=False): the table pandas renders
TABLE == "|table|"

\* the sheet loop of tabular_to_md; md_path is the sheet's output file
RECURSIVE SheetLoop(_, _, _, _, _)
SheetWrite(sheets, p, out_dir, fs, outs, md_path) ==
    SheetLoop(Tail(sheets), p, out_dir,
              WriteFile(fs, md_path,
                        TextData("# " \o PathName(p) \o " - Sheet: " \o Head(sheets)
                                   \o "\n\n" \o TABLE)),
              Append(outs, md_path))
SheetLoop(sheets, p, out_dir, fs, outs) ==
    IF sheets = <<>> THEN Staged(outs, fs)
    ELSE SheetWrite(sheets, p, out_dir, fs, outs,
                    PathStr(PathJoin(Path(out_dir),
                                     PathStem(p) \o "__" \o SafeSheet(Head(sheets)) \o ".md")))

CsvWrite(p, fs, md_path) ==
    Staged(<<md_path>>,
           WriteFile(fs, md_path, TextData("# " \o PathName(p) \o "\n\n" \o TABLE)))

\* tabular_to_md(src, out_dir)
tabular_to_md(src, out_dir, fs) ==
    IF Lower(PathSuffix(Path(src))) = ".csv" THEN
        IF ~IsFile(fs, src) THEN Failed("FileNotFoundError", fs)
        ELSE IF ReadData(fs, src).form \notin {"csv", "text"} THEN Failed("ParserError", fs)
        ELSE CsvWrite(Path(src), fs,
                      PathStr(PathJoin(Path(out_dir), PathStem(Path(src)) \o ".md")))
    ELSE IF ~IsFile(fs, src) THEN Failed("FileNotFoundError", fs)
    ELSE IF ReadData(fs, src).form # "workbook" THEN Failed("ValueError", fs)
    ELSE SheetLoop(ReadData(fs, src).sheets, Path(src), out_dir, fs, <<>>)

\* the loop of _safe_extract_zip over the members still to come
RECURSIVE ExtractLoop(_, _, _, _)

\* _safe_extract_zip rejecting absolute member names only
ExtractMember_AbsoluteOnly(members, dest, fs, extracted, mf) ==
    IF mf.root = "/"
    THEN ExtractLoop(Tail(members), dest, fs, extracted)
    ELSE IF EndsWith(Head(members).filename, "/")
    THEN ExtractLoop(Tail(members), dest, fs, extracted)
    ELSE IF mf.parts = <<>> THEN Failed("IsADirectoryError", fs)
    ELSE ExtractLoop(Tail(members), dest,
                     WriteFile(fs, PathStr(PathJoinTo(dest, mf)), Head(members).data),
                     Append(extracted, PathStr(PathJoinTo(dest, mf))))

\* one turn of the loop, mf being Path(member.filename)
ExtractMember(members, dest, fs, extracted, mf) ==
    IF mf.root = "/" \/ \E i \in 1..Len(mf.parts) : mf.parts[i] = ".."
    THEN ExtractLoop(Tail(members), dest, fs, extracted)
    ELSE IF EndsWith(Head(members).filename, "/")
    THEN ExtractLoop(Tail(members), dest, fs, extracted)
    ELSE IF mf.parts = <<>> THEN Failed("IsADirectoryError", fs)
    ELSE ExtractLoop(Tail(members), dest,
                     WriteFile(fs, PathStr(PathJoinTo(dest, mf)), Head(members).data),
                     Append(extracted, PathStr(PathJoinTo(dest, mf))))
ExtractLoop(members, dest, fs, extracted) ==
    IF members = <<>> THEN Staged(extracted, fs)
    ELSE ExtractMember(members, dest, fs, extracted, Path(Head(members).filename))

\* _safe_extract_zip(zf, dest), members being zf.infolist()
_safe_extract_zip(members, dest, fs) == ExtractLoop(members, Path(dest), fs, <<>>)

\* sorted(list) of strings: by code points
RECURSIVE SeqLess(_, _)
SeqLess(a, b) ==
    IF a = <<>> THEN b # <<>>
    ELSE IF b = <<>> THEN FALSE
    ELSE IF a[1] # b[1] THEN a[1] < b[1]
    ELSE SeqLess(Tail(a), Tail(b))
RECURSIVE InsertSorted(_, _)
InsertSorted(x, list) ==
    IF list = <<>> THEN <<x>>
    ELSE IF SeqLess(B(x), B(Head(list))) THEN <<x>> \o list
    ELSE <<Head(list)>> \o InsertSorted(x, Tail(list))
RECURSIVE Sorted(_)
Sorted(list) == IF list = <<>> THEN <<>> ELSE InsertSorted(Head(list), Sorted(Tail(list)))

\* the end of unzip_stage: the manifest is written and staged
UnzipManifest(ex, manifest) ==
    IF ex.raised # None THEN ex
    ELSE Staged(Append(ex.value, manifest),
                WriteFile(ex.fs, manifest,
                          TextData("# ZIP Manifest\n"
                                     \o JoinStr(Sorted([i \in 1..Len(ex.value) |->
                                                           PathName(Path(ex.value[i]))]),
                                                "\n"))))

\* unzip_stage(src, out_dir)
unzip_stage(src, out_dir, fs) ==
    IF ~IsFile(fs, src) THEN Failed("FileNotFoundError", fs)
    ELSE IF ReadData(fs, src).form # "zip" THEN Failed("BadZipFile", fs)
    ELSE UnzipManifest(_safe_extract_zip(ReadData(fs, src).members, out_dir, fs),
                       PathStr(PathJoin(Path(out_dir), "ZIP_MANIFEST.md")))

\* target_map of convert_legacy_office
TARGET_MAP_ITEMS == << <<".xls", "xlsx">>, <<".ppt", "pptx">> >>
TargetMapKeys == {TARGET_MAP_ITEMS[i][1] : i \in 1..Len(TARGET_MAP_ITEMS)}
TargetMap(ext) ==
    TARGET_MAP_ITEMS[CHOOSE i \in 1..Len(TARGET_MAP_ITEMS) : TARGET_MAP_ITEMS[i][1] = ext][2]

\* what the LibreOffice run does, an input of the call: it writes the
\* converted file, it exits with an error (subprocess.run raises), or it
\* exits normally without writing anything
OfficeOutcomes == {"converted", "failed", "nothing"}

ConvertRun(src, fs, office, out) ==
    IF office = "failed" THEN Failed("CalledProcessError", fs)
    ELSE IF office = "nothing" \/ ~IsFile(fs, src) THEN Staged(<<out>>, fs)
    ELSE Staged(<<out>>, WriteFile(fs, out, ReadData(fs, src)))

\* convert_legacy_office(src); the path it returns is the one element of
\* the outcome's value
convert_legacy_office(src, fs, soffice_bin, office) ==
    IF Lower(PathSuffix(Path(src))) \notin TargetMapKeys THEN Failed("ValueError", fs)
    ELSE IF ~soffice_bin THEN Failed("RuntimeError", fs)
    ELSE ConvertRun(src, fs, office,
                    PathStr(PathJoin(PathParent(Path(src)),
                                     PathStem(Path(src)) \o "."
                                       \o TargetMap(Lower(PathSuffix(Path(src)))))))

\* a flattening that keeps every occurrence
Unique_KeepAll(ready, seen) == ready

\* "unique preserve order"
RECURSIVE Unique(_, _)
Unique(ready, seen) ==
    IF ready = <<>> THEN <<>>
    ELSE IF Head(ready) \in seen THEN Unique(Tail(ready), seen)
    ELSE <<Head(ready)>> \o Unique(Tail(ready), seen \cup {Head(ready)})

UniqueOf(r) == IF r.raised # None THEN r ELSE Staged(Unique(r.value, {}), r.fs)

\* a fallback that hands back the file it was given
FallbackText_Source(p, fs, out) ==
    IF ~IsFile(fs, PathStr(p)) THEN Staged(<<>>, fs) ELSE Staged(<<PathStr(p)>>, fs)

\* the fallback of stage_for_vectorstore: read as text, write a .txt
FallbackText(p, fs, out) ==
    IF ~IsFile(fs, PathStr(p)) THEN Staged(<<>>, fs)
    ELSE Staged(<<out>>, WriteFile(fs, out, TextData(ReadData(fs, PathStr(p)).text)))

\* stage_for_vectorstore(src, workdir), with SOFFICE_BIN and with what the
\* LibreOffice runs of the call do; StageEach is the loop of the ZIP branch
RECURSIVE stage_for_vectorstore(_, _, _, _, _)
RECURSIVE StageEach(_, _, _, _, _, _)
StageRest(r, rest, workdir, soffice_bin, office, ready) ==
    IF r.raised # None THEN r
    ELSE StageEach(rest, workdir, r.fs, soffice_bin, office, ready \o r.value)
StageEach(paths, workdir, fs, soffice_bin, office, ready) ==
    IF paths = <<>> THEN Staged(ready, fs)
    ELSE StageRest(stage_for_vectorstore(Head(paths), workdir, fs, soffice_bin, office),
                   Tail(paths), workdir, soffice_bin, office, ready)
StageConverted(converted, workdir, soffice_bin, office) ==
    IF converted.raised # None THEN converted
    ELSE stage_for_vectorstore(converted.value[1], workdir, converted.fs, soffice_bin, office)
StageUnzipped(unzipped, workdir, soffice_bin, office) ==
    IF unzipped.raised # None THEN unzipped
    ELSE UniqueOf(StageEach(unzipped.value, workdir, unzipped.fs, soffice_bin, office, <<>>))
\* stage_for_vectorstore returning [src] itself for an indexable extension
StageExt_Unresolved(src, workdir, fs, soffice_bin, office, p, ext) ==
    IF ext \in INDEXABLE THEN Staged(<<src>>, fs)
    ELSE IF ext \in {".doc", ".xls", ".ppt"} THEN
        (IF ~soffice_bin THEN Failed("RuntimeError", fs)
         ELSE StageConverted(convert_legacy_office(src, fs, soffice_bin, office),
                             workdir, soffice_bin, office))
    ELSE IF ext \in {".xlsx", ".xls", ".csv"}
    THEN tabular_to_md(src, PathStr(PathJoin(Path(workdir),
                                             _sanitize_filename(PathStem(p)) \o "_md")), fs)
    ELSE IF ext = ".zip"
    THEN StageUnzipped(unzip_stage(src, PathStr(PathJoin(Path(workdir),
                                                         _sanitize_filename(PathStem(p))
                                                           \o "_unzip")), fs),
                       workdir, soffice_bin, office)
    ELSE FallbackText(p, fs,
                      PathStr(PathJoin(Path(workdir), _sanitize_filename(PathStem(p)) \o ".txt")))

StageExt(src, workdir, fs, soffice_bin, office, p, ext) ==
    IF ext \in INDEXABLE THEN Staged(<<PathStr(Resolve(fs, p))>>, fs)
    ELSE IF ext \in {".doc", ".xls", ".ppt"} THEN
        (IF ~soffice_bin THEN Failed("RuntimeError", fs)
         ELSE StageConverted(convert_legacy_office(src, fs, soffice_bin, office),
                             workdir, soffice_bin, office))
    ELSE IF ext \in {".xlsx", ".xls", ".csv"}
    THEN tabular_to_md(src, PathStr(PathJoin(Path(workdir),
                                             _sanitize_filename(PathStem(p)) \o "_md")), fs)
    ELSE IF ext = ".zip"
    THEN StageUnzipped(unzip_stage(src, PathStr(PathJoin(Path(workdir),
                                                         _sanitize_filename(PathStem(p))
                                                           \o "_unzip")), fs),
                       workdir, soffice_bin, office)
    ELSE FallbackText(p, fs,
                      PathStr(PathJoin(Path(workdir), _sanitize_filename(PathStem(p)) \o ".txt")))
stage_for_vectorstore(src, workdir, fs, soffice_bin, office) ==
    StageExt(src, workdir, fs, soffice_bin, office, Path(src), Lower(PathSuffix(Path(src))))


(***************************************************************************)
(* rag_services/store_service.py: StoreService over the vector store API.  *)
(* The API is the environment: it answers vector_stores.list with a page   *)
(* and vector_stores.create with the store it made.                        *)
(***************************************************************************)
\* re.sub(r"_+", "_", s).strip("_")
Underscored(t) == Strip(ReSubRuns(t, {95}, B("_")), {95})

\* [a-z0-9_]
StoreNameChars == LowerAlnum \cup {95}

\* re.match(r"^(.*?)(\d+)?$", s): where the trailing digits start
\* (Len(s) + 1 when s does not end with a digit)
TailDigitsStart(s) == Min({i \in 1..(Len(s) + 1) : \A j \in i..Len(s) : s[j] \in 48..57})

\* the end of standardize_store_name, from the head and the trailing digits
StandardizeJoinDigits(head, tail_digits) ==
    Underscored(Underscored(SelectSeq(head, LAMBDA c : c \notin 48..57)) \o tail_digits)

StandardizeCleaned(s) ==
    StandardizeJoinDigits(SubSeq(s, 1, TailDigitsStart(s) - 1),
                          SubSeq(s, TailDigitsStart(s), Len(s)))

\* re.sub(r"[^a-z0-9_]+", "_", s), one character at a time: the runs of "_"
\* are collapsed by the substitution that follows it
StoreChars(t) == [i \in 1..Len(t) |-> IF t[i] \in StoreNameChars THEN t[i] ELSE 95]

\* Helper.standardize_store_name
standardize_store_name(store_name) ==
    Str(StandardizeCleaned(Underscored(StoreChars(Strip(LowerText(B(store_name)), StrSpace)))))

\* a vector store of the API, and a page of vector_stores.list (or of
\* vector_stores.files.list): resp.data, resp.has_more, resp.last_id
VectorStore(id, name) == [id |-> id, name |-> name]
ListPage(data, has_more, last_id) == [data |-> data, has_more |-> has_more, last_id |-> last_id]

\* the API as a list request sees it: a server that pages the items it
\* holds, or a scripted client (a mock's side_effect) whose answers are
\* pages in turn, the last one repeated
Server(items) == [kind |-> "server", items |-> items, pages |-> <<>>]
Scripted(pages) == [kind |-> "script", items |-> <<>>, pages |-> pages]

\* the server's answer to list(limit, after): the items after the one
\* with the id after, limit of them at most
IndexOfId(items, id) == Max({0} \cup {i \in 1..Len(items) : items[i].id = id})
ServerPage(rest, limit) ==
    ListPage(Take(rest, limit), Len(rest) > limit,
             IF rest = <<>> THEN None ELSE Take(rest, limit)[Len(Take(rest, limit))].id)
ServerList(items, limit, after) ==
    ServerPage(IF Truthy(after) /\ IndexOfId(items, after) > 0
               THEN SubSeq(items, IndexOfId(items, after) + 1, Len(items)) ELSE items,
               limit)

\* limit=100 of the list requests
LIST_LIMIT == 100

\* the answer to request number n of a listing
Respond(api, after, n) ==
    IF api.kind = "server" THEN ServerList(api.items, LIST_LIMIT, after)
    ELSE api.pages[Min({n, Len(api.pages)})]

\* openai.NOT_GIVEN, which is false as a condition
NOT_GIVEN == "<NOT_GIVEN>"

\* the cursor taken from the last item before last_id
NextAfter_LastItemFirst(resp, absent) ==
    IF resp.data # <<>> THEN resp.data[Len(resp.data)].id
    ELSE IF Truthy(resp.last_id) THEN resp.last_id
    ELSE absent

\* the cursor after a page with has_more:
\* getattr(resp, "last_id", None) or (resp.data[-1].id if resp.data else absent)
NextAfter(resp, absent) ==
    IF Truthy(resp.last_id) THEN resp.last_id
    ELSE IF resp.data # <<>> THEN resp.data[Len(resp.data)].id
    ELSE absent

\* the listing loop of list_store and of FileService.list: what it has
\* collected, the after of its next request, the after of every request it
\* made, the pages it got, and whether it has left the loop
Listing(after, collected, requests, pages, returned) ==
    [after |-> after, collected |-> collected, requests |-> requests, pages |-> pages,
     returned |-> returned]
ListStart(absent) == Listing(absent, <<>>, <<>>, <<>>, FALSE)

\* the loop without "if not after: break"
ListTurn_NoBreak(st, resp, absent) ==
    Listing(IF resp.has_more THEN NextAfter(resp, absent) ELSE st.after,
            st.collected \o resp.data,
            Append(st.requests, st.after),
            Append(st.pages, resp),
            ~resp.has_more)

\* one turn of the loop, resp being the answer to its request
ListTurn(st, resp, absent) ==
    Listing(IF resp.has_more THEN NextAfter(resp, absent) ELSE st.after,
            st.collected \o resp.data,
            Append(st.requests, st.after),
            Append(st.pages, resp),
            ~resp.has_more \/ ~Truthy(NextAfter(resp, absent)) \/ NextAfter(resp, absent) = NOT_GIVEN)

\* the loop run to its end
RECURSIVE ListLoop(_, _, _)
ListLoop(api, st, absent) ==
    IF st.returned THEN st
    ELSE ListLoop(api, ListTurn(st, Respond(api, st.after, Len(st.requests) + 1), absent),
                  absent)

\* StoreService.list_store() against the API
list_store(api) == ListLoop(api, ListStart(None), None).collected

\* StoreService.find_id_by_name(store_name), all_stores being what
\* list_store returned
StoreMatches(all_stores, name_lc) ==
    {i \in 1..Len(all_stores) :
        LowerText(Strip(B(all_stores[i].name), StrSpace)) = name_lc}
FirstMatchId(all_stores, found) ==
    IF found = {} THEN None ELSE all_stores[Min(found)].id
find_id_by_name(all_stores, store_name) ==
    FirstMatchId(all_stores,
                 StoreMatches(all_stores, LowerText(Strip(B(store_name), StrSpace))))

\* the id of the n-th store the API creates
StoreId(n) == "vs_" \o Str(Digits(n))

\* client.vector_stores.create(name=...): the stores of the API afterwards
vector_stores_create(stores, name) == Append(stores, VectorStore(StoreId(Len(stores) + 1), name))

\* a caller of StoreService: where it is in its call (pc), the call (op,
\* store_name), the name after standardize_store_name, what list_store
\* gave it, what find_id_by_name made of it, the requests it sent to
\* vector_stores.create with their answers, what the call returned, and
\* the number of calls it has made
StoreCaller(pc, op, store_name, name, all_stores, existed_id, created, returned, calls) ==
    [pc |-> pc, op |-> op, store_name |-> store_name, name |-> name,
     all_stores |-> all_stores, existed_id |-> existed_id, created |-> created,
     ret |-> returned, calls |-> calls]
IdleCaller == StoreCaller("idle", "none", "", "", <<>>, None, <<>>, None, 0)

\* get_or_create going on to create whatever find_id_by_name returned
GetOrCreateFound_AlwaysCreate(store_name, name, all_stores, existed_id, calls) ==
    StoreCaller("create", "get_or_create", store_name, name, all_stores, existed_id,
                <<>>, None, calls + 1)

\* get_or_create(store_name) up to its return or its call of create:
\* "if existed_id: return existed_id", after the list request was answered
GetOrCreateFound(store_name, name, all_stores, existed_id, calls) ==
    IF Truthy(existed_id)
    THEN StoreCaller("done", "get_or_create", store_name, name, all_stores, existed_id,
                     <<>>, existed_id, calls + 1)
    ELSE StoreCaller("create", "get_or_create", store_name, name, all_stores, existed_id,
                     <<>>, None, calls + 1)

\* create(store_name), api_name being the name it gives the API and
\* created the stores of the API after the request
CreateReturns(caller, api_name, created) ==
    [caller EXCEPT !.pc = "done",
                   !.created = Append(@, VectorStore(created[Len(created)].id, api_name)),
                   !.ret = created[Len(created)].id]
create(caller, store_name, stores) ==
    CreateReturns(caller, standardize_store_name(store_name),
                  vector_stores_create(stores, standardize_store_name(store_name)))


(***************************************************************************)
(* rag_services/file_service.py: FileService over the files of one vector  *)
(* store.  An attached file is its id and the "file_name" of its           *)
(* attributes; the attributes a caller passes are the "file_name" among    *)
(* them, None when there is none.                                          *)
(***************************************************************************)
FileObject(id, filename) == [id |-> id, filename |-> filename]
VectorStoreFile(id, file_name) == [id |-> id, file_name |-> file_name]

\* FileService.list() against the API
file_list(api) == ListLoop(api, ListStart(NOT_GIVEN), NOT_GIVEN).collected

\* FileService.find_id_by_name(file_name), all_files being what list
\* returned: the id of the first match, "" when there is none
FileMatches(all_files, name_lc) ==
    {i \in 1..Len(all_files) :
        Str(LowerText(Strip(B(all_files[i].file_name), StrSpace))) = name_lc}
file_find_id_by_name(all_files, file_name) ==
    IF FileMatches(all_files, Lower(file_name)) = {} THEN ""
    ELSE all_files[Min(FileMatches(all_files, Lower(file_name)))].id

\* merged_attrs["file_name"]: {"file_name": filename.lower(), **attributes}
MergedFileName(filename, attributes) ==
    IF attributes = None THEN Lower(filename) ELSE attributes

\* vector_stores.files.create_and_poll: the files of the store afterwards;
\* a file already attached is not attached a second time
create_and_poll(files, file_id, file_name) ==
    IF \E i \in 1..Len(files) : files[i].id = file_id THEN files
    ELSE Append(files, VectorStoreFile(file_id, file_name))

\* a caller of FileService: where it is in its call, the call (op,
\* attributes), the file objects it still has to attach (the first is the
\* one at hand), what the call returned or raised, the exceptions it
\* caught, and the number of calls it has made
FileCaller(pc, op, attributes, todo, returned, raised, caught, calls) ==
    [pc |-> pc, op |-> op, attributes |-> attributes, todo |-> todo, ret |-> returned,
     raised |-> raised, caught |-> caught, calls |-> calls]
IdleFileCaller == FileCaller("idle", "none", None, <<>>, None, None, <<>>, 0)

\* add(file_object, attributes) up to its request to attach:
\* "if file_id: raise DuplicateFileNameError"
AddFound(file_object, attributes, file_id, calls) ==
    IF Truthy(file_id)
    THEN FileCaller("done", "add", attributes, <<file_object>>, None,
                    "DuplicateFileNameError", <<>>, calls + 1)
    ELSE FileCaller("attach", "add", attributes, <<file_object>>, None, None, <<>>,
                    calls + 1)

\* ingest_path after staging: staged are the file objects that staging and
\* uploading the input give, in order; "if not staged_paths: return []"
IngestStaged(staged, attributes, calls) ==
    FileCaller(IF staged = <<>> THEN "done" ELSE "find", "ingest_path", attributes, staged,
               <<>>, None, <<>>, calls + 1)

\* the turn of the loop of ingest_path for the file object at hand, up to
\* its request to attach: DuplicateFileNameError is raised and caught, and
\* the loop goes on with the next file object
IngestFound(caller, existing) ==
    IF Truthy(existing)
    THEN [caller EXCEPT !.todo = Tail(@),
                        !.caught = Append(@, "DuplicateFileNameError"),
                        !.pc = IF Len(caller.todo) = 1 THEN "done" ELSE "find"]
    ELSE [caller EXCEPT !.pc = "attach"]

\* the end of the turn: the id of the attached file is appended
IngestAttached(caller) ==
    [caller EXCEPT !.todo = Tail(@), !.ret = Append(@, caller.todo[1].id),
                   !.pc = IF Len(caller.todo) = 1 THEN "done" ELSE "find"]


(***************************************************************************)
(* Inputs.  The file contents the operations are applied to: named samples *)
(* of the formats the detectors distinguish, and every byte string of at   *)
(* most MaxContentLen bytes over ContentAlphabet.                          *)
(***************************************************************************)
MaxContentLen == 2
ContentAlphabet == {0, 10, 44, 97}       \* NUL, "\n", ",", "a"

Repeat(s, n) == [i \in 1..(n * Len(s)) |-> s[((i - 1) % Len(s)) + 1]]
U16(n) == <<n % 256, n \div 256>>
U32(n) == <<n % 256, (n \div 256) % 256, (n \div 65536) % 256, n \div 16777216>>
Zeros(n) == [i \in 1..n |-> 0]

\* An archive of empty stored members, as zipfile.ZipFile(buf, "w") writes
\* it: the local headers, the central directory, the end record.
ZipLocal(name) ==
    ZIP_SIG \o <<20, 0, 0, 0, 0, 0, 0, 0, 33, 0>> \o Zeros(12) \o U16(Len(name)) \o <<0, 0>>
        \o B(name)
ZipCentral(name, offset) ==
    CDIR_SIG \o <<20, 3, 20, 0, 0, 0, 0, 0, 0, 0, 33, 0>> \o Zeros(12) \o U16(Len(name))
        \o Zeros(8) \o <<0, 0, 128, 1>> \o U32(offset) \o B(name)
RECURSIVE ZipLocals(_)
ZipLocals(names) ==
    IF names = <<>> THEN <<>> ELSE ZipLocal(Head(names)) \o ZipLocals(Tail(names))
RECURSIVE ZipCentrals(_, _)
ZipCentrals(names, offset) ==
    IF names = <<>> THEN <<>>
    ELSE ZipCentral(Head(names), offset)
             \o ZipCentrals(Tail(names), offset + Len(ZipLocal(Head(names))))
ZipArchive(names) ==
    LET locals == ZipLocals(names)
        dir    == ZipCentrals(names, 0)
    IN  locals \o dir \o EOCD_SIG \o Zeros(4) \o U16(Len(names)) \o U16(Len(names))
            \o U32(Len(dir)) \o U32(Len(locals)) \o <<0, 0>>

ZipDocx == ZipArchive(<<"word/document.xml">>)
ZipXlsx == ZipArchive(<<"xl/workbook.xml">>)
ZipPptx == ZipArchive(<<"ppt/presentation.xml">>)
ZipPlain == ZipArchive(<<"readme.txt">>)
ZipBoth == ZipArchive(<<"word/document.xml", "xl/workbook.xml">>)
ZipWordMedia == ZipArchive(<<"word/media.bin">>)
ZipEmpty == ZipArchive(<<>>)
ZipTruncated == SubSeq(ZipDocx, 1, Len(ZipDocx) - 30)

PdfDoc == B("%PDF-1.4\n")
PdfGarbage == PDF_SIG \o <<0, 255, 44, 97>>
PngDoc == PNG_SIG \o <<0>>
JpgDoc == JPG_SIG_PREFIX \o <<224>>
OleDoc == OLE_CFB_SIG
Csv20 == Repeat(B("a,b,c\n"), 20)
Tsv20 == Repeat(B("a\tb\tc\n"), 20)
ShebangPy == B("#!/usr/bin/env python3\nx = 1\n")
OneKeyword == B("def f\n")
OneKeywordCsv == B("echo a,b\n")
TwoKeywords == B("import os\ndef f():\n")
PhpTag == B("<?php $x;")
JavaClass == B("public class A {}")
JsonDoc == B("{\"a\": [1, 2]}")
NdjsonDoc == B("{\"a\":1}\n{\"b\":2}\n")
\* one JSON document: an array of objects, an object to a line
JsonArrayDoc == B("[\n{\"a\":1},\n{\"b\":2}\n]")
HtmlDoc == B("<html><body>hi</body></html>")
MarkdownDoc == B("title\n# head\n")
TexDoc == B("\\documentclass{article}")
PlainDoc == B("hello world\n")
NulText == <<97, 98, 0, 99, 100>>
LowRatio == <<1, 2, 3, 97>>
Ratio90 == B("abcdefghi") \o <<1>>
Ratio95 == B("abcdefghijklmnopqrs") \o <<1>>
Utf8Bom == <<239, 187, 191>> \o B("a,b\n")
Utf16Doc == <<255, 254, 97, 0, 44, 0, 98, 0>>
InvalidUtf8 == <<97, 98, 255, 99, 100>>

Samples ==
    {ZipDocx, ZipXlsx, ZipPptx, ZipPlain, ZipBoth, ZipWordMedia, ZipEmpty, ZipTruncated,
     PdfDoc, PdfGarbage, PngDoc, JpgDoc, OleDoc, Csv20, Tsv20, ShebangPy, OneKeyword,
     OneKeywordCsv, TwoKeywords, PhpTag, JavaClass, JsonDoc, NdjsonDoc, JsonArrayDoc,
     HtmlDoc,
     MarkdownDoc, TexDoc, PlainDoc, NulText, LowRatio, Ratio90, Ratio95, Utf8Bom,
     Utf16Doc, InvalidUtf8}

ShortContents == UNION {[1..n -> ContentAlphabet] : n \in 0..MaxContentLen}
Contents == Samples \cup ShortContents

\* original_name: absent, or a file name
Names ==
    {None, "notes.md", "data.csv", "a.xyz", "old.doc", "old.xls", "deck.PPT", "book.xlsx", "Main.PY",
     "README"}

\* What libmagic answers for a buffer: the module is missing, from_buffer
\* raises, or it returns a MIME string (possibly empty).
MagicMimes ==
    {"", "application/pdf", "Application/PDF", "application/x-pdf", "text/plain",
     "text/x-python", "application/msword", "application/vnd.ms-excel",
     "application/vnd.openxmlformats-officedocument.spreadsheetml.sheet",
     "image/jpeg", "image/pjpeg", "image/png", "image/gif", "text/x-markdown", "text/csv",
     "text/tab-separated-values", "application/vnd.ms-office", "application/CDFV2",
     "application/zip", "application/x-zip-compressed", "application/json",
     "application/x-empty", "application/octet-stream", "application/x-made-up",
     "application/x-tex", "text/xml", "text/html", "application/x-ndjson", "text/troff"}
MagicOutcomes == {MAGIC_MISSING, MAGIC_RAISES} \cup MagicMimes


\* The DetectedType values _enforce_supported is applied to directly: every
\* pairing of a supported or unsupported ext with a supported, alias or
\* unsupported MIME.
EnforceExts == SUPPORTED_EXT \cup {".xyz", ".png", ".zip", ".ole", ".xlsx", ".bin", ""}
EnforceMimes ==
    SUPPORTED_MIME \cup AliasKeys
        \cup {"application/x-made-up", "image/png", "application/zip",
              "application/octet-stream", ""}
EnforceNames == {None, "", "notes.md", "a.xyz", "Main.PY", "README"}
EnforceInputs == {DetectedType(e, m, "probe", None) : e \in EnforceExts, m \in EnforceMimes}


(***************************************************************************)
(* Inputs of the fetches: contents on both sides of MAX_BYTES, local files *)
(* whose reported size is right, wrong or unknown, HTTP responses whose    *)
(* Content-Length is right, wrong, malformed or absent.                    *)
(***************************************************************************)
\* prefix followed by letters "a" up to n bytes in all
Filled(prefix, n) == prefix \o [i \in 1..(n - Len(prefix)) |-> 97]

FetchSizes == {0, 1, MAX_BYTES - 1, MAX_BYTES, MAX_BYTES + 1, MAX_BYTES + CHUNK_SIZE + 1}
FetchData ==
    {Filled(<<>>, n) : n \in FetchSizes}
        \cup {Filled(PDF_SIG, MAX_BYTES), Filled(PDF_SIG, MAX_BYTES + 1), PNG_SIG,
              Filled(<<0>>, 3)}

FetchMagic == {MAGIC_MISSING, "application/pdf", "application/octet-stream"}

LocalPaths ==
    {"docs/report.txt", "/data/A.PDF", "notes", ".hidden", "My File.v2.md", "a.py", "in/a.exe"}
LocalFiles ==
    {LocalFile(FALSE, NoSize, FALSE, <<>>)}
        \cup {LocalFile(TRUE, fsize, readable, data) :
                fsize \in {NoSize, 0, MAX_BYTES, MAX_BYTES + 1},
                readable \in BOOLEAN, data \in FetchData}
        \cup {LocalFile(TRUE, Len(data), TRUE, data) : data \in FetchData}

\* data as iter_content yields it, in chunks of at most k bytes
RECURSIVE Chunked(_, _)
Chunked(data, k) ==
    IF data = <<>> THEN <<>>
    ELSE <<Take(data, k)>> \o Chunked(SubSeq(data, k + 1, Len(data)), k)

\* the streams of a body: whole chunks, an empty chunk among them, and a
\* connection that breaks after the first chunk
Streams(data) ==
    {Chunked(data, CHUNK_SIZE),
     <<Take(data, 1), <<>>>> \o Chunked(SubSeq(data, 2, Len(data)), CHUNK_SIZE),
     <<Take(data, CHUNK_SIZE), StreamError>>}

Urls ==
    {"https://h.example/files/a.pdf", "http://h.example/",
     "https://h.example/d/x%20y.txt;v=1?q=1#top"}
ContentDispositions ==
    {None, "attachment", "attachment; filename=\"My Report.PDF\"",
     "attachment; filename*=UTF-8''na%20me.txt"}
ContentLengths ==
    {None, "", "abc", Str(Digits(MAX_BYTES)), Str(Digits(MAX_BYTES + 1))}
Responses ==
    {Response(FALSE, None, None, <<>>)}
        \cup {Response(TRUE, cd, cl, stream) :
                cd \in ContentDispositions, cl \in ContentLengths,
                stream \in UNION {Streams(data) : data \in FetchData}}
NUMERIC_SUFFIX == "20250101000000123456"

\* Helper.get_file_detail(file_paths), for what is at each path: the file
\* (file), the response (resp), and what libmagic answers for the content
IsUrl(p) == StartsWith(p, "http://") \/ StartsWith(p, "https://")
RECURSIVE DetailLoop(_, _, _)
DetailAppend(d, rest, world, details) ==
    DetailLoop(rest, world, IF d # NoDetail THEN Append(details, d) ELSE details)
DetailLoop(paths, world, details) ==
    IF paths = <<>> THEN details
    ELSE DetailAppend(
             IF IsUrl(Head(paths))
             THEN _get_detail_from_url(Head(paths), world[Head(paths)].resp,
                                       world[Head(paths)].magic, NUMERIC_SUFFIX)
             ELSE _get_detail_from_local_path(Head(paths), world[Head(paths)].file,
                                              world[Head(paths)].magic),
             Tail(paths), world, details)
get_file_detail(file_paths, world) == DetailLoop(file_paths, world, <<>>)

\* the longest batch
MaxBatch == 2

NoFile == LocalFile(FALSE, NoSize, FALSE, <<>>)
NoResponse == Response(FALSE, None, None, <<>>)
At(file, resp, magic) == [file |-> file, resp |-> resp, magic |-> magic]
\* the world of the batches: a missing file, an unreadable one, an oversize
\* one, one that is larger than the size reported for it, one of unknown
\* size, a PNG image, two supported files, and three URLs
World ==
    [p \in {"missing.txt"} |-> At(NoFile, NoResponse, MAGIC_MISSING)]
    @@ [p \in {"locked.txt"} |->
          At(LocalFile(TRUE, 3, FALSE, Filled(<<>>, 3)), NoResponse, MAGIC_MISSING)]
    @@ [p \in {"big.txt"} |->
          At(LocalFile(TRUE, MAX_BYTES + 1, TRUE, Filled(<<>>, MAX_BYTES + 1)),
             NoResponse, MAGIC_MISSING)]
    @@ [p \in {"grown.txt"} |->
          At(LocalFile(TRUE, MAX_BYTES, TRUE, Filled(<<>>, MAX_BYTES + 1)),
             NoResponse, MAGIC_MISSING)]
    @@ [p \in {"nosize.txt"} |->
          At(LocalFile(TRUE, NoSize, TRUE, Filled(<<>>, MAX_BYTES + 1)),
             NoResponse, MAGIC_MISSING)]
    @@ [p \in {"pic.png"} |->
          At(LocalFile(TRUE, Len(PNG_SIG), TRUE, PNG_SIG), NoResponse, "image/png")]
    @@ [p \in {"ok.txt"} |->
          At(LocalFile(TRUE, 2, TRUE, Filled(<<>>, 2)), NoResponse, "text/plain")]
    @@ [p \in {"doc.bin"} |->
          At(LocalFile(TRUE, MAX_BYTES, TRUE, Filled(PDF_SIG, MAX_BYTES)),
             NoResponse, "application/pdf")]
    @@ [p \in {"https://h.example/files/a.pdf"} |->
          At(NoFile, Response(TRUE, None, None, Chunked(Filled(PDF_SIG, MAX_BYTES), CHUNK_SIZE)),
             MAGIC_MISSING)]
    @@ [p \in {"http://h.example/fail"} |-> At(NoFile, NoResponse, MAGIC_MISSING)]
    @@ [p \in {"https://h.example/big"} |->
          At(NoFile,
             Response(TRUE, None, "1", Chunked(Filled(<<>>, MAX_BYTES + 1), CHUNK_SIZE)),
             MAGIC_MISSING)]
Batches == UNION {[1..n -> DOMAIN World] : n \in 0..MaxBatch}


(***************************************************************************)
(* Inputs of the stager: the file system before the first call.            *)
(***************************************************************************)
Binary(text) == Data("binary", text, <<>>, <<>>)
Csv(text) == Data("csv", text, <<>>, <<>>)
Workbook(sheets) == Data("workbook", "", sheets, <<>>)
Slides == Data("slides", "", <<>>, <<>>)
Zip(members) == Data("zip", "", <<>>, members)

Bundle ==
    Zip(<<Member("a.pdf", Binary("%PDF-")), Member("dir/", NoData),
          Member("dir/b.csv", Csv("x,y")), Member("../evil.txt", TextData("evil")),
          Member("/abs.txt", TextData("abs")), Member("notes.log", TextData("log")),
          Member("a.pdf", Binary("%PDF-2")),
          Member("inner.zip", Zip(<<Member("c.md", TextData("# c"))>>))>>)

\* an archive with a legacy Office member
LegacyBundle ==
    Zip(<<Member("readme.md", TextData("# readme")),
          Member("old.xls", Workbook(<<"Sheet1">>))>>)

\* the archives _safe_extract_zip is given: their members
Archives ==
    {Bundle.members,
     <<Member("a/../../up.txt", TextData("up")), Member("..", TextData("dots")),
       Member("sub/../in.txt", TextData("in")), Member("/", NoData),
       Member("./ok.txt", TextData("ok"))>>,
     <<Member("deep/er/x.md", TextData("x")), Member(".", TextData("root"))>>}
DestDirs == {"out", "/work/vstore_stage/ex"}

StageWorld ==
    [k \in {"/work/docs/report.pdf"} |-> FileNode(Binary("%PDF-"))]
    @@ [k \in {"/data/v2.pdf"} |-> FileNode(Binary("%PDF-"))]
    @@ [k \in {"/work/latest.pdf"} |-> LinkNode("/data/v2.pdf")]
    @@ [k \in {"/work/cur"} |-> LinkNode("docs")]
    @@ [k \in {"/work/old.doc"} |-> FileNode(Binary("doc"))]
    @@ [k \in {"/work/data.csv"} |-> FileNode(Csv("a,b"))]
    @@ [k \in {"/work/book.xlsx"} |-> FileNode(Workbook(<<"S1", "a/b", "a_b">>))]
    @@ [k \in {"/work/old.xls"} |-> FileNode(Workbook(<<"Sheet1">>))]
    @@ [k \in {"/work/deck.ppt"} |-> FileNode(Slides)]
    @@ [k \in {"/work/bundle.zip"} |-> FileNode(Bundle)]
    @@ [k \in {"/work/bad.zip"} |-> FileNode(Binary("PK"))]
    @@ [k \in {"/work/legacy.zip"} |-> FileNode(LegacyBundle)]
    @@ [k \in {"/work/notes.log"} |-> FileNode(TextData("log line"))]
    @@ [k \in {"/work/notes.dat"} |-> FileNode(TextData("dat line"))]

StageSrcs ==
    {"docs/report.pdf", "/work/docs/report.pdf", "./docs/../docs/report.pdf",
     "latest.pdf", "cur/report.pdf", "Missing.PDF", "old.doc", "data.csv", "book.xlsx",
     "old.xls", "deck.ppt", "bundle.zip", "bad.zip", "legacy.zip",
     "notes.log", "notes.dat", "missing.log", "README"}
Workdirs == {"vstore_stage"}

(***************************************************************************)
(* Inputs of the services: the names and file objects the callers pass,    *)
(* and the answers of a scripted API to the list requests.                 *)
(***************************************************************************)
Callers == {1, 2}

\* the most calls the callers of a service make in a behaviour
MaxCalls == 3

StoreNames == {"Test Store", "New Store", "new_store"}

FileObjects ==
    {FileObject("file_1", "Report.PDF"), FileObject("file_2", "report.pdf"),
     FileObject("file_3", "notes.txt")}
\* the "file_name" of the attributes a caller passes, None for none
Attributes == {None, "report.pdf"}
\* what staging and uploading an input of ingest_path give
StagedUploads ==
    {<<>>, <<FileObject("file_4", "report.pdf")>>,
     <<FileObject("file_5", "data.md"), FileObject("file_6", "report.pdf")>>}

\* the pages of a scripted API
PageData ==
    {<<>>, <<VectorStore("vs_1", "Store One")>>,
     <<VectorStore("vs_2", "Store Two"), VectorStore("vs_3", "Store Three")>>}
Pages == {ListPage(data, has_more, last_id) :
             data \in PageData, has_more \in BOOLEAN, last_id \in {None, "vs_1", "vs_3"}}

\* the most pages of a script, and the most requests of a listing
MaxPages == 2
MaxRequests == MaxPages + 2
ScriptedApis == {Scripted(pages) : pages \in UNION {[1..n -> Pages] : n \in 1..MaxPages}}

\* the most calls of the stager in a behaviour
MaxStageCalls == 2


(***************************************************************************)
(* The state machine.  The detectors, the helper and the stager keep no    *)
(* state between calls but the file system the stager writes to: a state   *)
(* records the last call (the operation and its arguments, with what the   *)
(* environment answered), what it returned, and the file system.  The      *)
(* services work on what the API holds, the vector stores and the files    *)
(* attached to one of them; their callers run concurrently, each API       *)
(* request of a call being one step, and a state records where every       *)
(* caller is in its call.                                                  *)
(***************************************************************************)
VARIABLES
    call,           \* the call: [op, ...arguments]; op = "none" before any call
    ret,            \* what the call returned
    fs,             \* the file system of the stager
    SOFFICE_BIN,    \* stager.SOFFICE_BIN is set: LibreOffice was found at import
    stagings,       \* the number of calls of the stager so far
    stores,         \* the vector stores the API holds, in the order of its list
    callers,        \* the callers of StoreService
    returned,       \* what get_or_create has returned: <<store_name, id>>
    files,          \* the files attached to the vector store of FileService
    fileCallers,    \* the callers of FileService
    lister          \* a listing against a scripted API: [op, api, st]

libVars == <<call, ret, fs, SOFFICE_BIN, stagings>>
storeVars == <<stores, callers, returned>>
fileVars == <<files, fileCallers>>
vars == <<call, ret, fs, SOFFICE_BIN, stagings, stores, callers, returned, files,
          fileCallers, lister>>

NoCall == [op |-> "none"]

Init ==
    /\ call = NoCall
    /\ ret = None
    /\ fs = StageWorld
    /\ SOFFICE_BIN \in BOOLEAN
    /\ stagings = 0
    /\ stores = <<>>
    /\ callers = [c \in Callers |-> IdleCaller]
    /\ returned = {}
    /\ files = <<>>
    /\ fileCallers = [c \in Callers |-> IdleFileCaller]
    /\ lister = [op |-> "none", api |-> Scripted(<<>>), st |-> ListStart(None)]

\* FileTypeDetector.detect(content, original_name), with libmagic answering magic
Detect ==
    /\ call = NoCall
    /\ \E content \in Contents, original_name \in Names, magic \in MagicOutcomes :
          /\ call' = [op |-> "detect", content |-> content,
                      original_name |-> original_name, magic |-> magic]
          /\ ret' = detect(content, original_name, magic)
    /\ UNCHANGED <<fs, SOFFICE_BIN, stagings, storeVars, fileVars, lister>>

\* NHPODetector().detect(content, original_name)
NHPODetect ==
    /\ call = NoCall
    /\ \E content \in Contents, original_name \in Names :
          /\ call' = [op |-> "nhpo_detect", content |-> content,
                      original_name |-> original_name]
          /\ ret' = NHPO_detect(content, original_name)
    /\ UNCHANGED <<fs, SOFFICE_BIN, stagings, storeVars, fileVars, lister>>

\* _enforce_supported(dt, original_name)
EnforceSupported ==
    /\ call = NoCall
    /\ \E dt \in EnforceInputs, original_name \in EnforceNames :
          /\ call' = [op |-> "_enforce_supported", dt |-> dt,
                      original_name |-> original_name]
          /\ ret' = _enforce_supported(dt, original_name)
    /\ UNCHANGED <<fs, SOFFICE_BIN, stagings, storeVars, fileVars, lister>>

\* keys looked up in the registry's tables: every key of a table and keys
\* that are in none
RegistryExts == MimeMapKeys \cup EnforceExts
RegistryMimes == MimeMapValues \cup EnforceMimes

\* get_mime_map().get(ext)
GetMimeMap ==
    /\ call = NoCall
    /\ \E ext \in RegistryExts :
          /\ call' = [op |-> "get_mime_map", ext |-> ext]
          /\ ret' = MIME_MAP(ext)
    /\ UNCHANGED <<fs, SOFFICE_BIN, stagings, storeVars, fileVars, lister>>

\* get_mime_to_ext().get(mime)
GetMimeToExt ==
    /\ call = NoCall
    /\ \E mime \in RegistryMimes :
          /\ call' = [op |-> "get_mime_to_ext", mime |-> mime]
          /\ ret' = MIME_TO_EXT(mime)
    /\ UNCHANGED <<fs, SOFFICE_BIN, stagings, storeVars, fileVars, lister>>

\* get_alias_mime_to_canonical().get(mime)
GetAliasMimeToCanonical ==
    /\ call = NoCall
    /\ \E mime \in RegistryMimes :
          /\ call' = [op |-> "get_alias_mime_to_canonical", mime |-> mime]
          /\ ret' = ALIAS_MIME_TO_CANONICAL(mime)
    /\ UNCHANGED <<fs, SOFFICE_BIN, stagings, storeVars, fileVars, lister>>

\* Helper._get_detail_from_local_path(file_path)
GetDetailFromLocalPath ==
    /\ call = NoCall
    /\ \E file_path \in LocalPaths, file \in LocalFiles, magic \in FetchMagic :
          /\ call' = [op |-> "_get_detail_from_local_path", file_path |-> file_path,
                      file |-> file, magic |-> magic]
          /\ ret' = _get_detail_from_local_path(file_path, file, magic)
    /\ UNCHANGED <<fs, SOFFICE_BIN, stagings, storeVars, fileVars, lister>>

\* Helper._get_detail_from_url(url)
GetDetailFromUrl ==
    /\ call = NoCall
    /\ \E url \in Urls, resp \in Responses, magic \in FetchMagic :
          /\ call' = [op |-> "_get_detail_from_url", url |-> url, resp |-> resp,
                      magic |-> magic]
          /\ ret' = _get_detail_from_url(url, resp, magic, NUMERIC_SUFFIX)
    /\ UNCHANGED <<fs, SOFFICE_BIN, stagings, storeVars, fileVars, lister>>

\* Helper.get_file_detail(file_paths)
GetFileDetail ==
    /\ call = NoCall
    /\ \E file_paths \in Batches :
          /\ call' = [op |-> "get_file_detail", file_paths |-> file_paths]
          /\ ret' = get_file_detail(file_paths, World)
    /\ UNCHANGED <<fs, SOFFICE_BIN, stagings, storeVars, fileVars, lister>>

\* stage_for_vectorstore(src, workdir); r is its outcome
StageReturns(src, workdir, office, r) ==
    /\ call' = [op |-> "stage_for_vectorstore", src |-> src, workdir |-> workdir,
                office |-> office, before |-> fs]
    /\ ret' = [raised |-> r.raised, value |-> r.value]
    /\ fs' = r.fs

StageForVectorstore ==
    /\ call.op \in {"none", "stage_for_vectorstore", "_safe_extract_zip"}
    /\ stagings < MaxStageCalls
    /\ \E src \in StageSrcs, workdir \in Workdirs, office \in OfficeOutcomes :
          StageReturns(src, workdir, office,
                       stage_for_vectorstore(src, workdir, fs, SOFFICE_BIN, office))
    /\ stagings' = stagings + 1
    /\ UNCHANGED <<SOFFICE_BIN, storeVars, fileVars, lister>>

\* _safe_extract_zip(zf, dest) on an open archive
SafeExtractReturns(members, dest, r) ==
    /\ call' = [op |-> "_safe_extract_zip", members |-> members, dest |-> dest,
                before |-> fs]
    /\ ret' = [raised |-> r.raised, value |-> r.value]
    /\ fs' = r.fs

SafeExtractZip ==
    /\ call.op \in {"none", "stage_for_vectorstore", "_safe_extract_zip"}
    /\ stagings < MaxStageCalls
    /\ \E members \in Archives, dest \in DestDirs :
          SafeExtractReturns(members, dest, _safe_extract_zip(members, dest, fs))
    /\ stagings' = stagings + 1
    /\ UNCHANGED <<SOFFICE_BIN, storeVars, fileVars, lister>>

\* StoreService.get_or_create(store_name) to its return or to its call of
\* create: the name is standardized and the stores are listed
GetOrCreate(c) ==
    /\ callers[c].pc \in {"idle", "done"} /\ callers[1].calls + callers[2].calls < MaxCalls
    /\ \E store_name \in StoreNames :
          callers' = [callers EXCEPT ![c] =
              GetOrCreateFound(store_name, standardize_store_name(store_name),
                               list_store(Server(stores)),
                               find_id_by_name(list_store(Server(stores)),
                                               standardize_store_name(store_name)),
                               callers[c].calls)]
    /\ returned' = IF Truthy(callers'[c].ret)
                   THEN returned \cup {<<callers'[c].store_name, callers'[c].ret>>}
                   ELSE returned
    /\ UNCHANGED <<libVars, stores, fileVars, lister>>

\* "return self.create(name)" of get_or_create
GetOrCreateCreate(c) ==
    /\ callers[c].pc = "create" /\ callers[c].op = "get_or_create"
    /\ callers' = [callers EXCEPT ![c] = create(callers[c], callers[c].name, stores)]
    /\ stores' = vector_stores_create(stores, standardize_store_name(callers[c].name))
    /\ returned' = returned \cup {<<callers'[c].store_name, callers'[c].ret>>}
    /\ UNCHANGED <<libVars, fileVars, lister>>

\* StoreService.create(store_name)
Create(c) ==
    /\ callers[c].pc \in {"idle", "done"} /\ callers[1].calls + callers[2].calls < MaxCalls
    /\ \E store_name \in StoreNames :
          /\ callers' = [callers EXCEPT ![c] =
                 create(StoreCaller("create", "create", store_name, store_name, <<>>, None,
                                    <<>>, None, callers[c].calls + 1),
                        store_name, stores)]
          /\ stores' = vector_stores_create(stores, standardize_store_name(store_name))
    /\ UNCHANGED <<libVars, returned, fileVars, lister>>

\* FileService.add(file_object, attributes) to its raise or to its request
\* to attach: the files of the store are listed
Add(c) ==
    /\ fileCallers[c].pc \in {"idle", "done"} /\ fileCallers[1].calls + fileCallers[2].calls < MaxCalls
    /\ \E file_object \in FileObjects, attributes \in Attributes :
          fileCallers' = [fileCallers EXCEPT ![c] =
              AddFound(file_object, attributes,
                       file_find_id_by_name(file_list(Server(files)), file_object.filename),
                       fileCallers[c].calls)]
    /\ UNCHANGED <<libVars, storeVars, files, lister>>

\* the request to attach of add, and its return
AddAttach(c) ==
    /\ fileCallers[c].pc = "attach" /\ fileCallers[c].op = "add"
    /\ files' = create_and_poll(files, fileCallers[c].todo[1].id,
                                MergedFileName(fileCallers[c].todo[1].filename,
                                               fileCallers[c].attributes))
    /\ fileCallers' = [fileCallers EXCEPT ![c].pc = "done",
                                          ![c].ret = fileCallers[c].todo[1].id]
    /\ UNCHANGED <<libVars, storeVars, lister>>

\* FileService.ingest_path(input_path, attributes) to the start of its loop
IngestPath(c) ==
    /\ fileCallers[c].pc \in {"idle", "done"} /\ fileCallers[1].calls + fileCallers[2].calls < MaxCalls
    /\ \E staged \in StagedUploads, attributes \in Attributes :
          fileCallers' = [fileCallers EXCEPT ![c] =
              IngestStaged(staged, attributes, fileCallers[c].calls)]
    /\ UNCHANGED <<libVars, storeVars, files, lister>>

\* a turn of the loop of ingest_path to its request to attach: the file is
\* uploaded and the files of the store are listed
IngestFind(c) ==
    /\ fileCallers[c].pc = "find" /\ fileCallers[c].op = "ingest_path"
    /\ fileCallers' = [fileCallers EXCEPT ![c] =
           IngestFound(fileCallers[c],
                       file_find_id_by_name(file_list(Server(files)),
                                            fileCallers[c].todo[1].filename))]
    /\ UNCHANGED <<libVars, storeVars, files, lister>>

\* the request to attach of ingest_path, to the end of the turn
IngestAttach(c) ==
    /\ fileCallers[c].pc = "attach" /\ fileCallers[c].op = "ingest_path"
    /\ files' = create_and_poll(files, fileCallers[c].todo[1].id,
                                MergedFileName(fileCallers[c].todo[1].filename,
                                               fileCallers[c].attributes))
    /\ fileCallers' = [fileCallers EXCEPT ![c] = IngestAttached(fileCallers[c])]
    /\ UNCHANGED <<libVars, storeVars, lister>>

\* StoreService.list_store() against a scripted API, to its first request
ListStore ==
    /\ lister.op = "none"
    /\ \E api \in ScriptedApis :
          lister' = [op |-> "list_store", api |-> api, st |-> ListStart(None)]
    /\ UNCHANGED <<libVars, storeVars, fileVars>>

\* FileService.list() against a scripted API, to its first request
FileList ==
    /\ lister.op = "none"
    /\ \E api \in ScriptedApis :
          lister' = [op |-> "FileService.list", api |-> api, st |-> ListStart(NOT_GIVEN)]
    /\ UNCHANGED <<libVars, storeVars, fileVars>>

\* a turn of the listing loop: one request and what is done with its answer
ListRequest ==
    /\ lister.op # "none" /\ ~lister.st.returned
    /\ Len(lister.st.requests) < MaxRequests
    /\ lister' = [lister EXCEPT !.st =
           ListTurn(lister.st,
                    Respond(lister.api, lister.st.after, Len(lister.st.requests) + 1),
                    IF lister.op = "list_store" THEN None ELSE NOT_GIVEN)]
    /\ UNCHANGED <<libVars, storeVars, fileVars>>

DetectNext == Detect \/ NHPODetect \/ EnforceSupported
RegistryNext == GetMimeMap \/ GetMimeToExt \/ GetAliasMimeToCanonical
FetchNext == GetDetailFromLocalPath \/ GetDetailFromUrl \/ GetFileDetail
StageNext == StageForVectorstore \/ SafeExtractZip
GetOrCreateNext == \E c \in Callers : GetOrCreate(c) \/ GetOrCreateCreate(c)
StoreNext == \E c \in Callers : GetOrCreate(c) \/ GetOrCreateCreate(c) \/ Create(c)
FileNext ==
    \E c \in Callers : Add(c) \/ AddAttach(c) \/ IngestPath(c) \/ IngestFind(c)
                           \/ IngestAttach(c)
ListNext == ListStore \/ FileList \/ ListRequest

Next == DetectNext \/ RegistryNext \/ FetchNext \/ StageNext \/ StoreNext \/ FileNext \/ ListNext

Spec == Init /\ [][Next]_vars
DetectSpec == Init /\ [][DetectNext]_vars
RegistrySpec == Init /\ [][RegistryNext]_vars
FetchSpec == Init /\ [][FetchNext]_vars
StageSpec == Init /\ [][StageNext]_vars
GetOrCreateSpec == Init /\ [][GetOrCreateNext]_vars
StoreSpec == Init /\ [][StoreNext]_vars
FileSpec == Init /\ [][FileNext]_vars
ListSpec == Init /\ [][ListNext]_vars
\* the listing loop goes on as long as it can: it is one running call
ListFairSpec == ListSpec /\ WF_vars(ListRequest)


(***************************************************************************)
(* The properties of the detectors.                                        *)
(***************************************************************************)
\* a result that went through support enforcement: a supported ext with a
\* supported MIME that is the canonical MIME of the ext, or the generic
\* binary pair
Enforced(dt) ==
    \/ /\ is_supported_ext(dt.ext) /\ is_supported_mime(dt.mime)
       /\ dt.mime = _canonical_mime_for_ext(dt.ext)
    \/ dt.ext = ".bin" /\ dt.mime = "application/octet-stream"

\* libmagic gave no MIME: the module is missing, from_buffer raised, or it
\* returned the empty string
NoMagic(magic) == magic \in {MAGIC_MISSING, MAGIC_RAISES, ""}

\* C1: on every detection path the result of FileTypeDetector.detect went
\* through support enforcement: its pair is supported and canonical, or it
\* is ('.bin', 'application/octet-stream').
C1_DetectEnforced == call.op = "detect" => Enforced(ret)

\* C2: _enforce_supported on a type whose ext and MIME are both unsupported
\* returns the extension of the original filename with its canonical MIME
\* when both are supported, and ('.bin', 'application/octet-stream') when
\* there is no filename or its extension is not supported.
C2_RescueByName ==
    (/\ call.op = "_enforce_supported"
     /\ ~is_supported_ext(call.dt.ext) /\ ~is_supported_mime(call.dt.mime)) =>
        IF /\ Truthy(call.original_name)
           /\ is_supported_ext(NameExt(call.original_name))
           /\ Truthy(_canonical_mime_for_ext(NameExt(call.original_name)))
           /\ is_supported_mime(_canonical_mime_for_ext(NameExt(call.original_name)))
        THEN /\ ret.ext = NameExt(call.original_name)
             /\ ret.mime = _canonical_mime_for_ext(NameExt(call.original_name))
        ELSE ret.ext = ".bin" /\ ret.mime = "application/octet-stream"

SentinelExts(zf) ==
    {OOXML_SENTINELS[i][1] : i \in {j \in 1..Len(OOXML_SENTINELS) :
                                       B(OOXML_SENTINELS[j][2]) \in ZipNames(zf)}}

\* the call is detect on a valid ZIP archive
DetectOnZip ==
    /\ call.op = "detect"
    /\ HasPrefix(call.content, ZIP_SIG) \/ HasPrefix(call.content, ZIP_EMPTY_SIG)
    /\ ZipOk(ZipFile(call.content))

\* the sniffed extension of an archive: ".xlsx" before ".docx" before
\* ".pptx", and ".zip" when it has none of the three sentinels
SniffedExt(exts) ==
    IF ".xlsx" \in exts THEN ".xlsx"
    ELSE IF ".docx" \in exts THEN ".docx"
    ELSE IF ".pptx" \in exts THEN ".pptx"
    ELSE ".zip"

\* C4 as stated: for a valid ZIP archive the ext that detect returns is
\* '.docx', '.xlsx' or '.pptx' according to the sentinel entry the archive
\* has, and '.zip' if it has none, on the libmagic path and on the
\* signature-fallback path.
C4_ZipBySentinel ==
    DetectOnZip =>
        IF SentinelExts(ZipFile(call.content)) = {} THEN ret.ext = ".zip"
        ELSE ret.ext \in SentinelExts(ZipFile(call.content))

\* C4, amended: for a valid ZIP archive, when libmagic gives no MIME detect
\* returns the sniffed extension ('.xlsx' before '.docx' before '.pptx',
\* else '.zip'); when libmagic reports a ZIP MIME it returns the sniffed
\* extension if that is '.docx' or '.pptx' and ('.bin',
\* 'application/octet-stream') if it is '.xlsx' or '.zip'.
C4_ZipSniffedThenEnforced ==
    DetectOnZip =>
        /\ NoMagic(call.magic) =>
              ret.ext = SniffedExt(SentinelExts(ZipFile(call.content)))
        /\ (~NoMagic(call.magic) /\ Lower(call.magic) \in ZIP_MIME_ALIASES) =>
              IF SniffedExt(SentinelExts(ZipFile(call.content))) \in {".docx", ".pptx"}
              THEN ret.ext = SniffedExt(SentinelExts(ZipFile(call.content)))
              ELSE ret.ext = ".bin" /\ ret.mime = "application/octet-stream"

\* an archive with both the Word and the Excel sentinel, libmagic missing:
\* detected as '.xlsx'
C4_Witness ==
    /\ call.op = "detect" /\ call.content = ZipBoth /\ call.magic = MAGIC_MISSING
    /\ ret.ext = ".xlsx"

\* C5: 20 lines of 3 comma-separated fields, without a filename, are
\* detected as '.csv', and with tabs as '.tsv', whether or not libmagic is
\* available.
C5_Delimited ==
    (call.op = "detect" /\ call.original_name = None
     /\ (NoMagic(call.magic) \/ call.magic = "text/plain")) =>
        /\ call.content = Csv20 => ret.ext = ".csv"
        /\ call.content = Tsv20 => ret.ext = ".tsv"

\* C6: when no signature matches (libmagic unavailable, no filename),
\* detect returns ('.txt', 'text/plain') only for content that passes
\* _is_plaintext: no NUL byte and at least 95% of the sample printable or
\* whitespace.
C6_PlaintextChecked ==
    (/\ call.op = "detect" /\ call.magic \in {MAGIC_MISSING, MAGIC_RAISES}
     /\ call.original_name = None
     /\ FallbackSignature(call.content, call.original_name) = NoDT
     /\ ret.ext = ".txt" /\ ret.mime = "text/plain") =>
        _is_plaintext(call.content)

\* the lower-cased first line of the decoded sample, as _guess_code_ext
\* takes it
FirstLine(txt) ==
    LowerText(IF Len(txt) > 0 THEN Splitlines(txt, StrBreaks)[1] ELSE <<>>)
\* the highest keyword score of a language
TopScore(txt) == Max({Score(txt, i) : i \in 1..Len(CODE_KEYWORDS)})
\* the text NHPODetector decodes from the content
Sampled(content) == DecodeUtf8(Take(content, SAMPLE_BYTES))

\* the call is NHPODetector.detect without a filename hint, on content
\* that has no binary signature and that _is_text accepts: the content
\* reaches _heuristic_text
NHPOByContent ==
    /\ call.op = "nhpo_detect" /\ ~Truthy(call.original_name)
    /\ \A sig \in {PDF_SIG, PNG_SIG, JPG_SIG_PREFIX, OLE_CFB_SIG, ZIP_SIG, ZIP_EMPTY_SIG} :
          ~HasPrefix(call.content, sig)
    /\ NHPO_is_text(call.content)

\* C7 as stated: without a filename, a language extension is returned only
\* for a shebang naming a known interpreter or a top score of at least 2;
\* text with one matched keyword and no shebang is plaintext; a first
\* line '#!/usr/bin/env python3' gives '.py'.
C7_ShebangOrTwoKeywords ==
    NHPOByContent =>
        /\ ret.ext \in CODE_EXT =>
              \/ Shebang(FirstLine(Sampled(call.content))) # None
              \/ TopScore(Sampled(call.content)) >= 2
        /\ (/\ TopScore(Sampled(call.content)) = 1
            /\ ~HasPrefix(FirstLine(Sampled(call.content)), B("#!"))) =>
              ret.ext = ".txt"
        /\ FirstLine(Sampled(call.content)) = B("#!/usr/bin/env python3") =>
              ret.ext = ".py"

\* C7, amended: without a filename, a language extension is returned only
\* for a shebang naming a known interpreter, a '<?php' tag, or a top score
\* of at least 2; text with one matched keyword, no shebang and no '<?php'
\* tag is not classified as a language but as '.txt' or as another text
\* format (JSON, HTML, CSV, TSV, Markdown, TeX); a first line
\* '#!/usr/bin/env python3' gives '.py'.
C7_ShebangPhpTagOrTwoKeywords ==
    NHPOByContent =>
        /\ ret.ext \in CODE_EXT =>
              \/ Shebang(FirstLine(Sampled(call.content))) # None
              \/ Occurs(B("<?php"), Sampled(call.content))
              \/ TopScore(Sampled(call.content)) >= 2
        /\ (/\ TopScore(Sampled(call.content)) = 1
            /\ ~HasPrefix(FirstLine(Sampled(call.content)), B("#!"))
            /\ ~Occurs(B("<?php"), Sampled(call.content))) =>
              ret.ext \in {".txt", ".json", ".html", ".csv", ".tsv", ".md", ".tex"}
        /\ FirstLine(Sampled(call.content)) = B("#!/usr/bin/env python3") =>
              ret.ext = ".py"

\* text with the single keyword "def ", no shebang: plaintext
C7_Witness ==
    /\ NHPOByContent /\ call.content = OneKeyword
    /\ TopScore(Sampled(call.content)) = 1
    /\ ret.ext = ".txt"

(***************************************************************************)
(* The properties of the content fetcher.                                  *)
(***************************************************************************)
\* the body that a stream delivers when the connection does not break
RECURSIVE Body(_)
Body(stream) == IF stream = <<>> THEN <<>> ELSE Head(stream) \o Body(Tail(stream))

\* the connection breaks while the stream is read
Breaks(stream) == \E i \in 1..Len(stream) : stream[i] = StreamError

\* C8: every FileDetail that a fetch returns holds the complete content and
\* at most MAX_BYTES bytes of it, and a fetch of more than MAX_BYTES bytes
\* returns None, also when the size declared for the content is absent or
\* wrong.
C8_FetchCapped ==
    /\ call.op = "_get_detail_from_local_path" =>
          /\ ret # NoDetail =>
                ret.content = call.file.data /\ Len(ret.content) <= MAX_BYTES
          /\ Len(call.file.data) > MAX_BYTES => ret = NoDetail
    /\ (call.op = "_get_detail_from_url" /\ ~Breaks(call.resp.stream)) =>
          /\ ret # NoDetail =>
                ret.content = Body(call.resp.stream) /\ Len(ret.content) <= MAX_BYTES
          /\ Len(Body(call.resp.stream)) > MAX_BYTES => ret = NoDetail

\* what is at path p cannot be fetched: it does not exist, cannot be read,
\* is oversize, or is detected as an unsupported type
Oversize(data) == Len(data) > MAX_BYTES
Unsupported(data, original_name, magic) ==
    ~is_supported_ext(detect(data, original_name, magic).ext)
LocalFailure(p, file, magic) ==
    \/ ~file.exists \/ ~file.readable \/ Oversize(file.data)
    \/ Unsupported(file.data, SplitextRoot(Basename(p)), magic)
UrlFailure(p, resp, magic) ==
    \/ ~resp.ok \/ Breaks(resp.stream) \/ Oversize(Body(resp.stream))
    \/ Unsupported(Body(resp.stream), _derive_original_name(p, resp.cd, NUMERIC_SUFFIX),
                   magic)
Failure(p) ==
    IF IsUrl(p) THEN UrlFailure(p, World[p].resp, World[p].magic)
    ELSE LocalFailure(p, World[p].file, World[p].magic)
Success(p) == ~Failure(p)

\* the result of the fetch of one item
Fetched(p) ==
    IF IsUrl(p) THEN _get_detail_from_url(p, World[p].resp, World[p].magic, NUMERIC_SUFFIX)
    ELSE _get_detail_from_local_path(p, World[p].file, World[p].magic)

\* the successful items of a batch, in input order
Successful(file_paths) == SelectSeq(file_paths, Success)

\* C9: get_file_detail returns exactly the FileDetails of the items that
\* exist, can be read, are not oversize and are of a supported type, in
\* input order; every other item is left out and stops nothing.
C9_BatchOfSuccessful ==
    call.op = "get_file_detail" =>
        /\ Len(ret) = Len(Successful(call.file_paths))
        /\ \A i \in 1..Len(ret) :
              /\ ret[i] = Fetched(Successful(call.file_paths)[i])
              /\ ret[i] # NoDetail

(***************************************************************************)
(* The properties of the stager.                                           *)
(***************************************************************************)
\* the call is stage_for_vectorstore on a path with an indexable extension
StagedIndexable ==
    /\ call.op = "stage_for_vectorstore"
    /\ Lower(PathSuffix(Path(call.src))) \in INDEXABLE

\* C10 as stated: stage_for_vectorstore on a path whose extension is
\* indexable returns a list of exactly one element, the path it was given,
\* unchanged, and writes nothing.
C10_SamePathUnchanged ==
    StagedIndexable =>
        /\ ret.raised = None /\ ret.value = <<call.src>>
        /\ fs = call.before

\* C10, amended: stage_for_vectorstore on a path whose extension is
\* indexable returns a list of exactly one element, the resolved form of
\* the path it was given: absolute, with no symbolic link left to follow,
\* and naming the same file; nothing is written.
C10_ResolvedPath ==
    StagedIndexable =>
        /\ ret.raised = None /\ Len(ret.value) = 1
        /\ StartsWith(ret.value[1], "/")
        /\ FileKey(call.before, ret.value[1]) = FileKey(call.before, call.src)
        /\ FileKey(call.before, ret.value[1]) = ret.value[1]
        /\ fs = call.before

\* a relative path through a symbolic link: the target of the link is
\* returned
C10_Witness ==
    /\ StagedIndexable /\ call.src = "latest.pdf"
    /\ ret.value = <<"/data/v2.pdf">> /\ fs = call.before

\* the extensions stage_for_vectorstore names as legacy Office
LegacyExts == {".doc", ".xls", ".ppt"}
StagedLegacy ==
    /\ call.op = "stage_for_vectorstore"
    /\ Lower(PathSuffix(Path(call.src))) \in LegacyExts

\* the OOXML file next to src: same directory, same stem, the extension
\* with an "x" added
ConvertedOf(src) ==
    PathStr(PathJoin(PathParent(Path(src)), PathStem(Path(src)) \o PathSuffix(Path(src)) \o "x"))

\* what the call returned or raised, and the file system it left
Outcome(r) == <<r.raised, r.value, r.fs>>

\* C11: stage_for_vectorstore on a ".doc", ".xls" or ".ppt" file, with the
\* converter present and converting, first has the converter write the
\* ".docx", ".xlsx" or ".pptx" file in the same directory and then returns
\* what staging that converted file returns.
C11_ConvertThenStage ==
    (StagedLegacy /\ SOFFICE_BIN /\ call.office = "converted"
        /\ IsFile(call.before, call.src)) =>
        /\ IsFile(fs, ConvertedOf(call.src))
        /\ Outcome([raised |-> ret.raised, value |-> ret.value, fs |-> fs])
             = Outcome(stage_for_vectorstore(
                           ConvertedOf(call.src), call.workdir,
                           WriteFile(call.before, ConvertedOf(call.src),
                                     ReadData(call.before, call.src)),
                           TRUE, call.office))

\* the archive at src has a member with a legacy Office extension
HasLegacyMember(before, src) ==
    /\ Lower(PathSuffix(Path(src))) = ".zip"
    /\ IsFile(before, src) /\ ReadData(before, src).form = "zip"
    /\ \E i \in 1..Len(ReadData(before, src).members) :
          Lower(PathSuffix(Path(ReadData(before, src).members[i].filename))) \in LegacyExts

\* C12: with the converter absent, staging a legacy Office file, or a ZIP
\* archive with a legacy Office member, raises instead of returning a
\* list; staging any other input does what it does with the converter
\* present.
C12_RaisesWithoutConverter ==
    (call.op = "stage_for_vectorstore" /\ ~SOFFICE_BIN) =>
        IF StagedLegacy \/ HasLegacyMember(call.before, call.src)
        THEN ret.raised # None
        ELSE Outcome([raised |-> ret.raised, value |-> ret.value, fs |-> fs])
               = Outcome(stage_for_vectorstore(call.src, call.workdir, call.before,
                                               TRUE, call.office))

\* path lies under the directory dir, with no ".." left in it
Inside(path, dir) ==
    /\ StartsWith(path, dir \o "/")
    /\ \A i \in 1..Len(Path(path).parts) : Path(path).parts[i] # ".."

\* the member name would leave the destination: absolute, or with ".."
Escapes(filename) ==
    StartsWith(filename, "/") \/ \E i \in 1..Len(Path(filename).parts) :
                                      Path(filename).parts[i] = ".."

\* C13: for every archive, in a destination without symbolic links, every
\* file _safe_extract_zip writes and every path it returns lies inside the
\* destination directory; no entry that is absolute or has a ".." component
\* is among the paths returned.
C13_ExtractedInsideDest ==
    call.op = "_safe_extract_zip" =>
        /\ \A i \in 1..Len(ret.value) : Inside(ret.value[i], PathStr(Path(call.dest)))
        /\ \A k \in DOMAIN fs :
              (k \notin DOMAIN call.before \/ fs[k] # call.before[k])
                  => Inside(k, FileKey(call.before, call.dest))
        /\ Len(ret.value) <= Cardinality({i \in 1..Len(call.members) :
                                             ~Escapes(call.members[i].filename)})

\* the archive with "../evil.txt" and "/abs.txt" among its members: both
\* are passed over, the other files are written under the destination
C13_Witness ==
    /\ call.op = "_safe_extract_zip" /\ call.members = Bundle.members /\ call.dest = "out"
    /\ ret.raised = None
    /\ ret.value = <<"out/a.pdf", "out/dir/b.csv", "out/notes.log", "out/a.pdf",
                     "out/inner.zip">>
    /\ "/work/out/dir/b.csv" \in DOMAIN fs
    /\ \A k \in DOMAIN fs \ DOMAIN call.before : StartsWith(k, "/work/out/")

(***************************************************************************)
(* The properties of StoreService and FileService.                         *)
(***************************************************************************)
\* the caller's call of get_or_create has returned
GotOrCreated(c) == callers[c].op = "get_or_create" /\ callers[c].pc = "done"

\* C14: get_or_create returns the id of the store that find_id_by_name
\* found, and then sends no request to create; when no store is found it
\* calls create once, with the name it looked for, and returns the id that
\* create returned.
C14_CreateOnlyWhenMissing ==
    \A c \in Callers :
        /\ callers[c].op = "get_or_create" =>
              callers[c].existed_id
                  = find_id_by_name(callers[c].all_stores, callers[c].name)
        /\ (callers[c].op = "get_or_create" /\ callers[c].pc = "create") =>
              callers[c].existed_id = None /\ callers[c].created = <<>>
        /\ GotOrCreated(c) =>
              IF callers[c].existed_id # None
              THEN callers[c].created = <<>> /\ callers[c].ret = callers[c].existed_id
              ELSE /\ Len(callers[c].created) = 1
                   /\ callers[c].created[1].name = callers[c].name
                   /\ callers[c].ret = callers[c].created[1].id
                   /\ \E i \in 1..Len(stores) : stores[i] = callers[c].created[1]

\* one call created the store, a later one found it and returned its id
C14_Witness ==
    \E c, d \in Callers :
        /\ GotOrCreated(c) /\ Len(callers[c].created) = 1
        /\ GotOrCreated(d) /\ callers[d].created = <<>>
        /\ callers[d].ret = callers[c].ret /\ callers[d].ret = "vs_1"
        /\ Len(stores) = 1

\* C15: after any calls of get_or_create, those of concurrent callers
\* included, no two stores have the same name and the calls with the same
\* name have all returned the same id.
C15_IdempotentByName ==
    /\ \A i, j \in 1..Len(stores) : stores[i].name = stores[j].name => i = j
    /\ \A r1, r2 \in returned : r1[1] = r2[1] => r1[2] = r2[2]

\* C16: the name create gives to vector_stores.create, in its one request,
\* is the string the caller gave, and the id of the new store is returned;
\* so for the create of get_or_create when no store is found.
C16_NameUnchanged ==
    \A c \in Callers :
        (callers[c].pc = "done" /\ callers[c].created # <<>>) =>
            /\ Len(callers[c].created) = 1
            /\ callers[c].created[1].name = callers[c].store_name
            /\ callers[c].ret = callers[c].created[1].id

\* the items of the pages, in order
RECURSIVE Concat(_)
Concat(pages) == IF pages = <<>> THEN <<>> ELSE Head(pages).data \o Concat(Tail(pages))

\* C17: list_store returns, in order, the items of every page it fetched;
\* its first request has after=None, each later one the last_id of the page
\* before or, that being absent, the id of the last item of the page
\* before; no request follows a page with has_more false.
C17_PagesInOrder ==
    lister.op = "list_store" =>
        /\ lister.st.collected = Concat(lister.st.pages)
        /\ Len(lister.st.requests) = Len(lister.st.pages)
        /\ lister.st.requests # <<>> => lister.st.requests[1] = None
        /\ \A i \in 2..Len(lister.st.requests) :
              /\ lister.st.pages[i - 1].has_more
              /\ lister.st.requests[i] =
                    IF lister.st.pages[i - 1].last_id # None
                    THEN lister.st.pages[i - 1].last_id
                    ELSE lister.st.pages[i - 1].data[Len(lister.st.pages[i - 1].data)].id
        /\ (lister.st.pages # <<>> /\ ~lister.st.pages[Len(lister.st.pages)].has_more)
              => lister.st.returned

\* two pages, the first without last_id: the second request has the id of
\* its last item, and the items of both pages are returned
C17_Witness ==
    /\ lister.op = "list_store" /\ lister.st.returned
    /\ lister.st.requests = <<None, "vs_3">>
    /\ lister.st.pages[1].last_id = None
    /\ Len(lister.st.collected) = 3

\* the listing has made a request and has not returned
Listing_Running == lister.op # "none" /\ ~lister.st.returned

\* has_more with neither last_id nor any item
NoCursor(page) == page.has_more /\ ~Truthy(page.last_id) /\ page.data = <<>>

\* the cursor that page number i of the listing supplies is not fresh: there
\* is none, or it is the after of a request already made
NotFresh(i) ==
    \/ ~Truthy(NextAfter(lister.st.pages[i], None))
    \/ NextAfter(lister.st.pages[i], None) = NOT_GIVEN
    \/ \E k \in 1..i : lister.st.requests[k] = NextAfter(lister.st.pages[i], None)

\* C18 as stated: a listing makes no request after a page that reports
\* more data without a fresh cursor, so that it terminates for every
\* behaviour of the API that does not supply a fresh cursor.
C18_StopsWithoutFreshCursor ==
    lister.op # "none" =>
        \A i \in 1..Len(lister.st.pages) :
            (lister.st.pages[i].has_more /\ NotFresh(i)) => i = Len(lister.st.pages)

\* C18, amended: list_store and FileService.list make no request after a
\* page with has_more and neither last_id nor any item, and return what
\* they collected; they terminate for every behaviour of the API that
\* answers, at some request, with such a page or with has_more false.
C18_StopsWithoutCursor ==
    /\ [](lister.op # "none" =>
            /\ \A i \in 1..Len(lister.st.pages) :
                  NoCursor(lister.st.pages[i]) => i = Len(lister.st.pages)
            /\ (lister.st.pages # <<>> /\ NoCursor(lister.st.pages[Len(lister.st.pages)]))
                  => lister.st.returned /\ lister.st.collected = Concat(lister.st.pages))
    /\ (Listing_Running
          /\ \E i \in 1..Len(lister.api.pages) :
                NoCursor(lister.api.pages[i]) \/ ~lister.api.pages[i].has_more)
       ~> lister.st.returned

\* the second page has has_more and no cursor: the listing returns the
\* items of the first page after two requests
C18_Witness ==
    /\ lister.op # "none" /\ lister.st.returned
    /\ Len(lister.st.requests) = 2
    /\ NoCursor(lister.st.pages[2])
    /\ lister.st.collected = lister.st.pages[1].data /\ lister.st.collected # <<>>

\* C19: no two files attached to the store have the same "file_name" in
\* lower case, after any calls of add and ingest_path, with any attributes
\* and with concurrent callers.
C19_NoDuplicateFileName ==
    \A i, j \in 1..Len(files) :
        Lower(files[i].file_name) = Lower(files[j].file_name) => i = j

\* the content is NDJSON as _looks_like_ndjson takes it: at least two
\* non-empty lines, most of them an object or an array on their own
DetectedNdjson ==
    /\ call.op \in {"detect", "nhpo_detect"}
    /\ call.content = NdjsonDoc

C21_ChokePoint ==
    call.op = "_enforce_supported" =>
        /\ \/ is_supported_ext(ret.ext) /\ is_supported_mime(ret.mime)
           \/ ret.ext = ".bin" /\ ret.mime = "application/octet-stream"
        /\ (is_supported_ext(call.dt.ext) /\ is_supported_mime(call.dt.mime)) =>
              ret = call.dt

\* a supported ext with a supported MIME of another format comes back as
\* it was
C21_Witness ==
    /\ call.op = "_enforce_supported"
    /\ call.dt.ext = ".pdf" /\ call.dt.mime = "text/markdown" /\ ret = call.dt

\* C22, as written: every value of the alias table and every entry of the
\* MIME -> extension map has a supported MIME and a supported extension, and
\* an extension mapped to its MIME and back is the same extension.
C22_RegistryConsistent ==
    /\ (call.op = "get_alias_mime_to_canonical" /\ ret # <<>>) =>
           (is_supported_ext(ret[1]) /\ is_supported_mime(ret[2]))
    /\ (call.op = "get_mime_to_ext" /\ ret # None) =>
           (is_supported_mime(call.mime) /\ is_supported_ext(ret))
    /\ (call.op = "get_mime_map" /\ ret # None) => MIME_TO_EXT(ret) = call.ext

\* C22, amended: every value of the alias table has a supported extension
\* and a supported MIME; an entry of the MIME -> extension map whose MIME is
\* supported has a supported extension, and a supported extension has a
\* supported canonical MIME; an extension other than '.jpg' mapped to its
\* MIME and back is the same extension, and every MIME of the reverse map
\* mapped to its extension and back is the same MIME.
C22_SupportedPartConsistent ==
    /\ (call.op = "get_alias_mime_to_canonical" /\ ret # <<>>) =>
           (is_supported_ext(ret[1]) /\ is_supported_mime(ret[2]))
    /\ (call.op = "get_mime_to_ext" /\ ret # None) =>
           /\ is_supported_mime(call.mime) => is_supported_ext(ret)
           /\ MIME_MAP(ret) = call.mime
    /\ (call.op = "get_mime_map" /\ ret # None) =>
           /\ is_supported_ext(call.ext) => is_supported_mime(ret)
           /\ call.ext # ".jpg" => MIME_TO_EXT(ret) = call.ext

\* the other extension of image/jpeg is looked up and comes back as itself
C22_Witness ==
    /\ call.op = "get_mime_map" /\ call.ext = ".jpeg"
    /\ ret = "image/jpeg" /\ MIME_TO_EXT(ret) = ".jpeg"

\* the call is a detection of a valid ZIP archive with more than one of the
\* OOXML sentinel entries, by NHPODetector or by FileTypeDetector on its
\* signature path
SniffOnSeveral ==
    /\ call.op \in {"detect", "nhpo_detect"}
    /\ call.op = "detect" => NoMagic(call.magic)
    /\ ZipOk(ZipFile(call.content))
    /\ Cardinality(SentinelExts(ZipFile(call.content))) > 1

\* C23: for a ZIP archive with more than one OOXML sentinel entry, the
\* sniff of FileTypeDetector and the sniff of NHPODetector both give the
\* first match in the order 'xl/workbook.xml' (.xlsx), 'word/document.xml'
\* (.docx), 'ppt/presentation.xml' (.pptx).
C23_SniffOrder ==
    SniffOnSeveral =>
        /\ call.op = "detect" =>
              /\ _sniff_ooxml_from_zip(call.content)[1] =
                    SniffedExt(SentinelExts(ZipFile(call.content)))
              /\ ret.ext = SniffedExt(SentinelExts(ZipFile(call.content)))
        /\ call.op = "nhpo_detect" =>
              NHPO_sniff_ooxml(call.content).ext =
                  SniffedExt(SentinelExts(ZipFile(call.content)))

\* the call is a detection of content that starts with the OLE magic
DetectOnOle ==
    /\ call.op \in {"detect", "nhpo_detect"}
    /\ HasPrefix(call.content, OLE_CFB_SIG)

\* the extension of the original name, lower-cased, "" without a name
NameHint == IF Truthy(call.original_name) THEN Lower(SplitextExt(call.original_name)) ELSE ""

TextClassified ==
    /\ call.op \in {"detect", "nhpo_detect"}
    /\ FallbackSignature(call.content, None) = NoDT
    /\ call.op = "detect" => NoMagic(call.magic)
    /\ call.op = "nhpo_detect" => NHPO_is_text(call.content)

\* the extension of the original name is one the filename rescue trusts
Rescuable(ext) ==
    /\ ext \in CODE_EXT \cup {".json", ".tex", ".csv", ".tsv"}
    /\ is_supported_ext(ext)

\* C25: when text classification is reached and the extension of the
\* original name is in the allow-list, supported and not '.txt', '.md' or
\* '.html', the result is that extension with its canonical MIME whatever
\* the content is; a '.txt', '.md' or '.html' name changes nothing: the
\* result is the one the content gets without a name.
C25_RescueFirst ==
    TextClassified =>
        /\ Rescuable(NameHint) =>
              (ret.ext = NameHint /\ ret.mime = MIME_MAP(NameHint))
        /\ (call.op = "detect" /\ NameHint \in {".txt", ".md", ".html"}) =>
              ret.ext = detect(call.content, None, call.magic).ext
        /\ (call.op = "nhpo_detect" /\ NameHint \in {".txt", ".md", ".html"}) =>
              ret.ext = NHPO_detect(call.content, None).ext

\* the call is a detection of text that is one JSON document, without a
\* binary signature, without a name and with no code in it; libmagic gave
\* no MIME or a text MIME
JsonClassified ==
    /\ call.op \in {"detect", "nhpo_detect"}
    /\ FallbackSignature(call.content, None) = NoDT
    /\ call.original_name = None
    /\ NHPO_guess_code_ext(DecodeUtf8(call.content)) = None
    /\ JsonLoads(DecodeUtf8(call.content))
    /\ call.op = "detect" => (NoMagic(call.magic) \/ HasPrefix(call.magic, "text/"))
    /\ call.op = "nhpo_detect" => NHPO_is_text(call.content)

\* C26: text that parses as one JSON document is classified '.json' with
\* 'application/json', a multi-line array of objects included: never as
\* NDJSON/binary, CSV, Markdown or plain text.
C26_JsonFirst ==
    JsonClassified => (ret.ext = ".json" /\ ret.mime = "application/json")

(***************************************************************************)
(* The properties of the stager's outputs.                                 *)
(***************************************************************************)
\* the call is stage_for_vectorstore on a ZIP archive, and it returned
StagedZip ==
    /\ call.op = "stage_for_vectorstore"
    /\ Lower(PathSuffix(Path(call.src))) = ".zip"
    /\ ret.raised = None

\* the directory the archive of the call is extracted to, and the paths
\* unzip_stage returns for it: the extracted files, then the manifest
UnzipDir ==
    PathStr(PathJoin(Path(call.workdir), _sanitize_filename(PathStem(Path(call.src))) \o "_unzip"))
Unzipped == unzip_stage(call.src, UnzipDir, call.before).value

\* what staging the path q returns, in the file system the call left
StagedAgain(q) == stage_for_vectorstore(q, call.workdir, fs, SOFFICE_BIN, call.office).value

\* the place of the first occurrence of x in results, the results of
\* staging the extracted paths one after the other: the member, then the
\* place in its result
FirstSeen(x, results) ==
    LET m == Min({i \in 1..Len(results) : \E k \in 1..Len(results[i]) : results[i][k] = x})
    IN  <<m, Min({k \in 1..Len(results[m]) : results[m][k] = x})>>

Earlier(a, b) == a[1] < b[1] \/ (a[1] = b[1] /\ a[2] < b[2])

\* value has no path twice, holds exactly the paths of results and has them
\* in the order of their first occurrence
Flattened(value, results) ==
    /\ \A i, j \in 1..Len(value) : value[i] = value[j] => i = j
    /\ {value[i] : i \in 1..Len(value)} =
          UNION {{results[i][k] : k \in 1..Len(results[i])} : i \in 1..Len(results)}
    /\ \A i \in 1..(Len(value) - 1) :
          Earlier(FirstSeen(value[i], results), FirstSeen(value[i + 1], results))

\* C27: staging a ZIP archive extracts it and writes the manifest; the
\* list returned has no path twice, holds exactly the paths that staging
\* the extracted files (the manifest among them) returns, and has them in
\* the order of their first occurrence.
C27_ZipFlattened ==
    StagedZip =>
        /\ IsFile(fs, PathStr(PathJoin(Path(UnzipDir), "ZIP_MANIFEST.md")))
        /\ \A i \in 1..Len(Unzipped) : IsFile(fs, Unzipped[i])
        /\ Flattened(ret.value, [i \in 1..Len(Unzipped) |-> StagedAgain(Unzipped[i])])

\* the archive with the member a.pdf twice and an archive inside: a.pdf is
\* returned once, the inner archive's file and manifest are returned
C27_Witness ==
    /\ StagedZip /\ call.src = "bundle.zip"
    /\ Len(ret.value) = 6
    /\ ret.value[1] = "/work/vstore_stage/bundle_unzip/a.pdf"
    /\ \E i \in 1..Len(ret.value) : ret.value[i] = "/work/vstore_stage/inner_unzip/c.md"

\* the files that differ between the file systems before and after a call:
\* the files the call wrote
Written(before, after) ==
    {k \in DOMAIN after : k \notin DOMAIN before \/ after[k] # before[k]}

\* C28: two staging calls on distinct input files, one after the other,
\* write disjoint sets of files: the later call changes no file the
\* earlier call wrote.
C28_DisjointOutputs ==
    [][(/\ call.op = "stage_for_vectorstore" /\ call'.op = "stage_for_vectorstore"
        /\ stagings' = stagings + 1
        /\ FileKey(call.before, call.src) # FileKey(fs, call'.src))
          => Written(fs, fs') \cap Written(call.before, fs) = {}]_vars

\* the call is stage_for_vectorstore, and it returned
StagedSome ==
    /\ call.op = "stage_for_vectorstore"
    /\ ret.raised = None

\* what staging the returned path v again does, in the file system the
\* call left
Restaged(v) == stage_for_vectorstore(v, call.workdir, fs, SOFFICE_BIN, call.office)

\* C29, as written: every path stage_for_vectorstore returns has an
\* indexable extension, and staging it again returns just that path.
C29_IndexableFixpoint ==
    StagedSome =>
        \A i \in 1..Len(ret.value) :
            /\ Lower(PathSuffix(Path(ret.value[i]))) \in INDEXABLE
            /\ Restaged(ret.value[i]).raised = None
            /\ Restaged(ret.value[i]).value = <<ret.value[i]>>

\* C29, amended: every path stage_for_vectorstore returns has an indexable
\* extension, so that ingest_path skips none; staging it again writes
\* nothing and returns one path, the resolved form of it, which is the path
\* itself only if that was absolute and free of symbolic links.
C29_IndexableResolved ==
    StagedSome =>
        \A i \in 1..Len(ret.value) :
            /\ Lower(PathSuffix(Path(ret.value[i]))) \in INDEXABLE
            /\ Restaged(ret.value[i]) =
                  Staged(<<PathStr(Resolve(fs, Path(ret.value[i])))>>, fs)
            /\ Restaged(Restaged(ret.value[i]).value[1]).value = Restaged(ret.value[i]).value

\* a nested archive with a table, a log and an archive inside: every path
\* returned is a '.pdf', '.md' or '.txt' file, the relative ones included
C29_Witness ==
    /\ StagedSome /\ call.src = "bundle.zip"
    /\ \E i \in 1..Len(ret.value) : ret.value[i] = "vstore_stage/notes.txt"
    /\ \E i \in 1..Len(ret.value) : ret.value[i] = "/work/vstore_stage/inner_unzip/c.md"
    /\ Restaged("vstore_stage/notes.txt").value = <<"/work/vstore_stage/notes.txt">>

(***************************************************************************)
(* The properties of the name hint of local files.                         *)
(***************************************************************************)
\* the name of the file without its last extension
LocalStem(file_path) == SplitextRoot(Basename(file_path))

\* C30: the result of _get_detail_from_local_path does not depend on the
\* last extension of the path: a file with the same bytes and the same
\* stem under another last extension is accepted or rejected alike and gets
\* the same name, MIME and content.
C30_ExtensionBlind ==
    call.op = "_get_detail_from_local_path" =>
        \A p \in LocalPaths :
            LocalStem(p) = LocalStem(call.file_path) =>
                _get_detail_from_local_path(p, call.file, call.magic) = ret

\* 'in/a.exe' holding a PDF is accepted as 'a.pdf', as 'a.py' with the same
\* bytes is
C30_Witness ==
    /\ call.op = "_get_detail_from_local_path" /\ call.file_path = "in/a.exe"
    /\ HasPrefix(call.file.data, PDF_SIG)
    /\ ret # NoDetail /\ ret.mime_type = "application/pdf" /\ ret.file_name = "a.pdf"
    /\ _get_detail_from_local_path("a.py", call.file, call.magic) = ret

=============================================================================
